---- MODULE Spec2Model ----
(***************************************************************************)
(* SmartWalker backend: telemetry fusion, dedupe, event detection, rollup  *)
(* aggregation, throttled persistence and the proactive alert dispatcher.  *)
(*                                                                         *)
(* Conventions                                                             *)
(*   - an Optional value is a sequence: << >> is None, <<x>> is x;         *)
(*   - wall-clock time is Epoch seconds plus `clock` milliseconds;         *)
(*   - reliance = fsrLeft + fsrRight + 1e-6 is kept exactly, in units of   *)
(*     1e-6 (an integer); balance is the exact fraction num/den;           *)
(*   - a raw packet timestamp is <<hi, lo>>, the integer hi*1000 + lo with *)
(*     0 <= lo < 1000, so that millisecond-scale values are representable. *)
(***************************************************************************)
EXTENDS Integers, Sequences, FiniteSets, TLC

VARIABLES
    clock,                  \* milliseconds elapsed since Epoch (time.time())
    walker_state,           \* merge_state.walker_state
    vision_state,           \* merge_state.vision_state
    merged_state,           \* merge_state.merged_state
    LAST_PERSIST,           \* ingest._LAST_PERSIST
    LAST_ANALYTICS_PERSIST, \* ingest._LAST_ANALYTICS_PERSIST
    SAMPLE_COUNTER,         \* ingest._SAMPLE_COUNTER
    LAST_RETENTION_RUN_TS,  \* ingest._LAST_RETENTION_RUN_TS
    LAST_PACKET_SIGNATURE,  \* ingest._LAST_PACKET_SIGNATURE
    INGEST_STATS,           \* ingest._INGEST_STATS
    last_event_ts,          \* analytics_store._last_event_ts
    last_steps,             \* analytics_store._last_steps
    last_step_change_ts,    \* analytics_store._last_step_change_ts
    resident_rows,          \* table residents
    metric_samples,         \* table metric_samples, in insertion order
    exercise_samples,       \* table exercise_metric_samples, in insertion order
    ingest_events,          \* table ingest_events, in insertion order
    hourly_rollups,         \* table hourly_metric_rollups, keyed <<resident, bucket>>
    daily_rollups,          \* table daily_metric_rollups, keyed <<resident, day>>
    queue,                  \* ProactiveMonitorService._queue
    running,                \* ProactiveMonitorService._running
    last_event_at,          \* ProactiveMonitorService._last_event_at
    last_event_signature,   \* ProactiveMonitorService._last_event_signature
    last_speak_by_resident, \* ProactiveMonitorService._last_speak_by_resident
    resident_to_session,    \* ProactiveMonitorService._resident_to_session
    broadcast_configured,   \* ProactiveMonitorService._broadcast_all is set
    broadcasts,             \* events handed to the Broadcast Hub, in order
    enqueued,               \* every event ever put on the alert queue, in order
    spoken_log,             \* <<resident, ts>> of every successful spoken alert
    avatar_channel,         \* what lite_agent_manager was asked to send, in order
    last_write_ms,          \* per subject, the clock value of its latest durable write
    all_connections,        \* ConnectionManager.all_connections
    resident_subscribers,   \* ConnectionManager.resident_subscribers
    connection_to_resident, \* ConnectionManager.connection_to_resident
    inbox,                  \* per socket, the messages sent to it, in order
    ws_phase,               \* per socket, the position of its _ws_loop
    ws_resident,            \* per socket, the residentId it asked for
    send_failed,            \* the sockets whose send failed in the latest publish
    worker_task,            \* ProactiveMonitorService._worker_task
    task_state,             \* per worker task, the position of its _worker_loop
    task_event,             \* per worker task, the alert it is processing
    stop_pending,           \* a stop() is suspended in `await self._worker_task`
    dispatched,             \* the alerts taken from the queue, in order
    request_ts,             \* the ts field of the latest packet, as sent
    retention_run_interval_seconds,  \* settings.retention_run_interval_seconds
    proactive_monitor_enabled,       \* settings.proactive_monitor_enabled
    ingest_task,                     \* per ingest task suspended in a broadcast, its locals
    LAST_RETENTION_REPORT,  \* run_at_ts of ingest._LAST_RETENTION_REPORT (None: {})
    response                \* the answer of the most recent ingest call

vars == <<clock, walker_state, vision_state, merged_state, LAST_PERSIST,
          LAST_ANALYTICS_PERSIST, SAMPLE_COUNTER, LAST_RETENTION_RUN_TS,
          LAST_PACKET_SIGNATURE, INGEST_STATS, last_event_ts, last_steps,
          last_step_change_ts, resident_rows, metric_samples, exercise_samples,
          ingest_events, hourly_rollups, daily_rollups, queue, running,
          last_event_at, last_event_signature, last_speak_by_resident,
          resident_to_session, broadcast_configured, broadcasts, enqueued,
          spoken_log, avatar_channel, last_write_ms, all_connections, resident_subscribers,
          connection_to_resident, inbox, ws_phase, ws_resident, send_failed,
          worker_task, task_state, task_event, stop_pending, dispatched,
          request_ts, response,
                retention_run_interval_seconds, proactive_monitor_enabled, ingest_task,
                LAST_RETENTION_REPORT>>

-----------------------------------------------------------------------------
(* Optional values *)

None == << >>

Some(x) == <<x>>

IsNone(o) == o = << >>

Get(o) == o[1]

Max2(a, b) == IF a >= b THEN a ELSE b

Abs(x) == IF x < 0 THEN -x ELSE x

-----------------------------------------------------------------------------
(* Time *)

\* The wall-clock second at which the modelled run starts.
Epoch == 1700000000

now_ts == Epoch + (clock \div 1000)

-----------------------------------------------------------------------------
(* Settings (app/core/config.py; the proactive_* values are those of the   *)
(* settings object the service is constructed with)                        *)

ingest_persist_interval_seconds == 5

ingest_risk_persist_interval_seconds == 1

ingest_store_full_payload_every_n_samples == 3

ingest_dedupe_window_ms == 250

ingest_allowed_resident_id == "r_1"

retention_enabled == TRUE

retention_metric_samples_days == 14

retention_exercise_metric_samples_days == 30

retention_ingest_events_days == 60

retention_hourly_rollups_days == 90

retention_daily_rollups_days == 365

proactive_weight_threshold_kg == 20

\* 0.30, in hundredths
proactive_balance_threshold_centi == 30

proactive_event_cooldown_seconds == 30

proactive_max_speaks_per_minute == 4

Residents == {"r_1", "r_2"}

Sources == {"walker", "vision"}

DurableEventTypes == {"fall", "near-fall", "heavy-lean", "inactivity"}

ProactiveEventTypes == {"fall", "high_load", "imbalance"}

-----------------------------------------------------------------------------
(* merge_state.compute_merged *)

\* 1e-6 expressed in the unit of `reliance` (1e-6): total = (l + r) * Micro + 1
Micro == 1000000

\* Python's `a or b` on the vision step count: 0 and None are both falsy, and
\* the alias key 'step_count' is never present in a dumped VisionPacket.
VisionStepCount(v) ==
    IF IsNone(v) THEN None
    ELSE IF IsNone(Get(v).stepCount) \/ Get(Get(v).stepCount) = 0 THEN None
    ELSE Get(v).stepCount

WalkerTippedStrict(tilt) == (~IsNone(tilt)) /\ Get(tilt) > 60

WalkerTipped(tilt) == (~IsNone(tilt)) /\ Get(tilt) >= 60

FallFromVision(v) == IF IsNone(v) THEN FALSE ELSE Get(v).fallSuspected

MergedSteps(w, v) ==
    IF ~IsNone(VisionStepCount(v)) THEN VisionStepCount(v)
    ELSE IF IsNone(w) THEN None ELSE Get(w).steps

compute_merged(rid, w, v, now) ==
    LET fsr_left  == IF IsNone(w) THEN 0 ELSE Get(w).fsrLeft
        fsr_right == IF IsNone(w) THEN 0 ELSE Get(w).fsrRight
        total     == (fsr_left + fsr_right) * Micro + 1
        tilt      == IF IsNone(w) THEN None ELSE Get(w).tiltDeg
        wts       == IF IsNone(w) THEN 0 ELSE Get(w).ts
        vts       == IF IsNone(v) THEN 0 ELSE Get(v).ts
    IN  [ residentId |-> rid,
          ts         |-> Max2(Max2(wts, vts), now),
          walker     |-> w,
          vision     |-> v,
          metrics    |-> [ steps         |-> MergedSteps(w, v),
                           tiltDeg       |-> tilt,
                           reliance      |-> total,
                           balance       |-> [num |-> (fsr_left - fsr_right) * Micro,
                                              den |-> total],
                           fallSuspected |-> FallFromVision(v) \/ WalkerTipped(tilt) ] ]

-----------------------------------------------------------------------------
(* routers/ingest.py: boundary helpers *)

ResidentMismatchNever(rid) == FALSE

\* resident_rejected increment of _enforce_allowed_resident (the packet is
\* accepted all the same); an empty identifier raises ValueError.
ResidentMismatch(rid) ==
    ingest_allowed_resident_id # "" /\ rid # ingest_allowed_resident_id

FiveYears == 86400 * 365 * 5

OneDay == 86400

\* The largest hi for which hi*1000 + lo is still a machine integer of the model.
SafeHi == (2147483647 \div 1000) - 1

NormalizeNoFloor(value, now) ==
    IF IsNone(value)
    THEN [ts |-> now, normalized |-> 0, rejected |-> 0]
    ELSE LET hi  == value[1]
             lo  == value[2]
             big == hi > 10000000 \/ (hi = 10000000 /\ lo > 0)
             huge   == (~big) /\ hi > SafeHi
             parsed == IF big THEN hi ELSE IF huge THEN 0 ELSE hi * 1000 + lo
             out    == huge \/ parsed > now + OneDay
         IN  [ts         |-> IF out THEN now ELSE parsed,
              normalized |-> IF big THEN 1 ELSE 0,
              rejected   |-> IF out THEN 1 ELSE 0]

\* value is None or <<hi, lo>> standing for the integer hi*1000 + lo.
\* Returns the normalized second and the two counter increments.
normalize_packet_ts(value, now) ==
    IF IsNone(value)
    THEN [ts |-> now, normalized |-> 0, rejected |-> 0]
    ELSE LET hi  == value[1]
             lo  == value[2]
             big == hi > 10000000 \/ (hi = 10000000 /\ lo > 0)   \* > 10_000_000_000
             \* values between 2^31 and 10^10 are seconds far in the future
             huge   == (~big) /\ hi > SafeHi
             parsed == IF big THEN hi ELSE IF huge THEN 0 ELSE hi * 1000 + lo
             out    == huge \/ parsed < now - FiveYears \/ parsed > now + OneDay
         IN  [ts         |-> IF out THEN now ELSE parsed,
              normalized |-> IF big THEN 1 ELSE 0,
              rejected   |-> IF out THEN 1 ELSE 0]

\* A whole-second timestamp as a raw packet value.
TsSec(n) == <<n \div 1000, n % 1000>>

\* sha256 over the dumped payload without 'ts': modelled by the payload itself.
Signature(d) == [f \in (DOMAIN d) \ {"ts"} |-> d[f]]

DedupeWindowMs == Max2(0, ingest_dedupe_window_ms)

IsDuplicateNever(prev, sig, nowMs) == FALSE

\* the comparison of _is_duplicate_packet; prev is the entry of the key before
\* the call (signature None when the key was never seen)
IsDuplicate(prev, sig, nowMs) ==
    prev.sig = Some(sig) /\ (nowMs - prev.ms) <= DedupeWindowMs

RememberAccepted(table, key, sig, nowMs) ==
    IF IsDuplicate(table[key], sig, nowMs) THEN table
    ELSE [table EXCEPT ![key] = [sig |-> Some(sig), ms |-> nowMs]]

\* `_LAST_PACKET_SIGNATURE[key] = (signature, now_ms)`, before the comparison
\* is answered
RememberPacket(table, key, sig, nowMs) ==
    [table EXCEPT ![key] = [sig |-> Some(sig), ms |-> nowMs]]

SignificantChangeAfterFirst(previous_merged, current_merged) ==
    IF IsNone(previous_merged) THEN FALSE
    ELSE LET pm == Get(previous_merged).metrics
             cm == current_merged.metrics
         IN  IF pm.steps # cm.steps THEN TRUE
             ELSE IF pm.fallSuspected # cm.fallSuspected THEN TRUE
             ELSE IF (~IsNone(pm.tiltDeg)) /\ (~IsNone(cm.tiltDeg))
                  THEN Abs(Get(cm.tiltDeg) - Get(pm.tiltDeg)) >= 2
                  ELSE pm.tiltDeg # cm.tiltDeg

is_significant_change(previous_merged, current_merged) ==
    IF IsNone(previous_merged) THEN TRUE
    ELSE LET pm == Get(previous_merged).metrics
             cm == current_merged.metrics
         IN  IF pm.steps # cm.steps THEN TRUE
             ELSE IF pm.fallSuspected # cm.fallSuspected THEN TRUE
             ELSE IF (~IsNone(pm.tiltDeg)) /\ (~IsNone(cm.tiltDeg))
                  THEN Abs(Get(cm.tiltDeg) - Get(pm.tiltDeg)) >= 2
                  ELSE pm.tiltDeg # cm.tiltDeg

Critical(metrics) ==
    metrics.fallSuspected \/ ((~IsNone(metrics.tiltDeg)) /\ Get(metrics.tiltDeg) >= 50)

persist_interval == Max2(1, ingest_persist_interval_seconds)

risk_persist_interval == Max2(1, ingest_risk_persist_interval_seconds)

full_payload_every == Max2(1, ingest_store_full_payload_every_n_samples)

analytics_interval == Max2(1, persist_interval \div 2)

PersistDueAlways(now, last, interval) == TRUE

\* negation of the interval throttle of _update_and_push
PersistDue(now, last, interval) == ~(now - last < interval)

KeepFullPayloadFirst(counter) == (counter % full_payload_every) = 1

KeepFullPayload(counter) == (counter % full_payload_every) = 0

-----------------------------------------------------------------------------
(* services/analytics_store.py *)

EventCooldown(event_type) ==
    CASE event_type = "fall"       -> 45
      [] event_type = "near-fall"  -> 45
      [] event_type = "heavy-lean" -> 60
      [] event_type = "inactivity" -> 300
      [] OTHER                     -> 60

bucket_start_hour(ts) == ts - (ts % 3600)

\* the UTC calendar day, as days since 1970-01-01
date_from_ts(ts) == ts \div 86400

EventDueAlways(ts, last, cooldown) == TRUE

\* the cooldown gate shared by _record_event_if_due and _should_enqueue
EventDue(ts, last, cooldown) == ~(ts - last < cooldown)

StepsMaxOverwrite(old, steps) == steps

\* row.steps_max = max(int(row.steps_max or 0), steps)
StepsMax(old, steps) == Max2(old, steps)

NewRollup ==
    [sample_count |-> 0, steps_max |-> 0, fall_count |-> 0, tilt_spike_count |-> 0,
     heavy_lean_count |-> 0, inactivity_count |-> 0, active_seconds |-> 0]

UpsertRowCountingCandidates(row, steps, fall_suspected, tilt_deg, heavy_lean_event, inactivity_event, active_seconds) ==
    [ sample_count     |-> row.sample_count + 1,
      active_seconds   |-> row.active_seconds + Max2(0, active_seconds),
      steps_max        |-> IF IsNone(steps) THEN row.steps_max
                           ELSE StepsMax(row.steps_max, Get(steps)),
      fall_count       |-> row.fall_count + (IF fall_suspected THEN 1 ELSE 0),
      tilt_spike_count |-> row.tilt_spike_count
                           + (IF (~IsNone(tilt_deg)) /\ Get(tilt_deg) >= 60 THEN 1 ELSE 0),
      heavy_lean_count |-> row.heavy_lean_count
                           + (IF (~IsNone(tilt_deg)) /\ Get(tilt_deg) >= 35 THEN 1 ELSE 0),
      inactivity_count |-> row.inactivity_count + (IF inactivity_event THEN 1 ELSE 0) ]

\* the body of the `for row in (hourly, daily)` loop of _upsert_rollups
UpsertRow(row, steps, fall_suspected, tilt_deg, heavy_lean_event, inactivity_event, active_seconds) ==
    [ sample_count     |-> row.sample_count + 1,
      active_seconds   |-> row.active_seconds + Max2(0, active_seconds),
      steps_max        |-> IF IsNone(steps) THEN row.steps_max
                           ELSE StepsMax(row.steps_max, Get(steps)),
      fall_count       |-> row.fall_count + (IF fall_suspected THEN 1 ELSE 0),
      tilt_spike_count |-> row.tilt_spike_count
                           + (IF (~IsNone(tilt_deg)) /\ Get(tilt_deg) >= 60 THEN 1 ELSE 0),
      heavy_lean_count |-> row.heavy_lean_count + (IF heavy_lean_event THEN 1 ELSE 0),
      inactivity_count |-> row.inactivity_count + (IF inactivity_event THEN 1 ELSE 0) ]

\* a table keyed by k: the row of k, created when absent, then updated
Upsert(table, k, steps, fall, tilt, heavy, inact, secs) ==
    LET row == IF k \in DOMAIN table THEN table[k] ELSE NewRollup
    IN  [x \in (DOMAIN table) \cup {k} |->
            IF x = k THEN UpsertRow(row, steps, fall, tilt, heavy, inact, secs)
            ELSE table[x]]

EventRow(rid, event_type, ts, severity) ==
    [resident_id |-> rid, ts |-> ts, event_type |-> event_type, severity |-> severity]

StepChanged(steps, prev_steps) ==
    (~IsNone(steps)) /\ (IsNone(prev_steps) \/ Get(steps) # Get(prev_steps))

\* `steps is not None and (prev_steps is None or steps > prev_steps)`: the
\* tick restarts the inactivity timer
StepIncreased(steps, prev_steps) ==
    (~IsNone(steps)) /\ (IsNone(prev_steps) \/ Get(steps) > Get(prev_steps))

\* persist_analytics_tick: the analytics state after the tick, given the state
\* before it.  A is [last_event_ts, last_steps, last_step_change_ts,
\* ingest_events, hourly_rollups, daily_rollups].
persist_analytics_tick(A, rid, merged, interval_seconds) ==
    LET ts    == merged.ts
        m     == merged.metrics
        steps == m.steps
        tilt  == m.tiltDeg
        fall  == m.fallSuspected
        prev_steps == A.last_steps[rid]
        stepped == StepIncreased(steps, prev_steps)
        change_ts == IF stepped THEN Some(ts) ELSE A.last_step_change_ts[rid]
        since == ts - (IF IsNone(change_ts) THEN ts ELSE Get(change_ts))
        due(t) == EventDue(ts, A.last_event_ts[<<rid, t>>], EventCooldown(t))
        inact == since >= EventCooldown("inactivity") /\ due("inactivity")
        heavy == (~IsNone(tilt)) /\ Get(tilt) >= 35 /\ due("heavy-lean")
        fell  == fall /\ due("fall")
        near  == (~IsNone(tilt)) /\ Get(tilt) >= 50 /\ Get(tilt) < 60 /\ due("near-fall")
        acc(t) == CASE t = "inactivity" -> inact
                    [] t = "heavy-lean" -> heavy
                    [] t = "fall"       -> fell
                    [] OTHER            -> near
        rows == (IF inact THEN <<EventRow(rid, "inactivity", ts, "medium")>> ELSE << >>)
             \o (IF heavy THEN <<EventRow(rid, "heavy-lean", ts,
                                          IF Get(tilt) < 60 THEN "medium" ELSE "high")>>
                 ELSE << >>)
             \o (IF fell THEN <<EventRow(rid, "fall", ts, "high")>> ELSE << >>)
             \o (IF near THEN <<EventRow(rid, "near-fall", ts, "medium")>> ELSE << >>)
    IN  [ last_event_ts |-> [k \in DOMAIN A.last_event_ts |->
                                IF k[1] = rid /\ acc(k[2]) THEN ts ELSE A.last_event_ts[k]],
          last_steps    |-> IF IsNone(steps) THEN A.last_steps
                            ELSE [A.last_steps EXCEPT ![rid] = steps],
          last_step_change_ts |-> [A.last_step_change_ts EXCEPT ![rid] = change_ts],
          ingest_events  |-> A.ingest_events \o rows,
          hourly_rollups |-> Upsert(A.hourly_rollups, <<rid, bucket_start_hour(ts)>>,
                                    steps, fall, tilt, heavy, inact, interval_seconds),
          daily_rollups  |-> Upsert(A.daily_rollups, <<rid, date_from_ts(ts)>>,
                                    steps, fall, tilt, heavy, inact, interval_seconds) ]

-----------------------------------------------------------------------------
(* services/proactive_monitor.py: detection and suppression *)

\* n/d rounded to the nearest integer (ties to even), d # 0
RoundNearest(n, d) ==
    LET nn == IF d < 0 THEN -n ELSE n
        dd == Abs(d)
        q  == nn \div dd
        r  == nn - q * dd
    IN  IF 2 * r < dd THEN q
        ELSE IF 2 * r > dd THEN q + 1
        ELSE IF q % 2 = 0 THEN q ELSE q + 1

\* f"{reliance:.1f}": sign and tenths
RelianceRepr(metrics) ==
    [neg |-> metrics.reliance < 0, mag |-> Abs(RoundNearest(metrics.reliance * 10, Micro))]

\* f"{balance:.2f}": sign (a float zero over a negative total is -0.0) and hundredths
BalanceRepr(metrics) ==
    LET b == metrics.balance
    IN  [neg |-> (b.num < 0 /\ b.den > 0) \/ (b.num > 0 /\ b.den < 0)
                 \/ (b.num = 0 /\ b.den < 0),
         mag |-> Abs(RoundNearest(b.num * 100, b.den))]

event_signature(event) ==
    [event_type |-> event.event_type,
     reliance   |-> RelianceRepr(event.metrics_snapshot),
     balance    |-> BalanceRepr(event.metrics_snapshot),
     fall       |-> event.metrics_snapshot.fallSuspected]

ProactiveEvent(rid, event_type, severity, metrics, ts) ==
    [resident_id |-> rid, event_type |-> event_type, severity |-> severity,
     metrics_snapshot |-> metrics, ts |-> ts]

HighLoad(metrics) == metrics.reliance >= proactive_weight_threshold_kg * Micro

ImbalanceSigned(metrics) ==
    metrics.balance.num * 100
        >= proactive_balance_threshold_centi * Abs(metrics.balance.den)

\* abs(balance) >= threshold, cross-multiplied by the positive |den| * 100
Imbalance(metrics) ==
    Abs(metrics.balance.num) * 100
        >= proactive_balance_threshold_centi * Abs(metrics.balance.den)

collect_events(rid, merged, ts) ==
    LET m == merged.metrics
    IN  (IF m.fallSuspected THEN <<ProactiveEvent(rid, "fall", "high", m, ts)>> ELSE << >>)
     \o (IF HighLoad(m) THEN <<ProactiveEvent(rid, "high_load", "medium", m, ts)>> ELSE << >>)
     \o (IF Imbalance(m) THEN <<ProactiveEvent(rid, "imbalance", "medium", m, ts)>> ELSE << >>)

proactive_cooldown == Max2(1, proactive_event_cooldown_seconds)

should_enqueue_by_cooldown(P, event) ==
    LET key == <<event.resident_id, event.event_type>>
    IN  EventDue(event.ts, P.last_event_at[key], proactive_cooldown)

\* _should_enqueue without its state update: P is [last_event_at, last_event_signature]
should_enqueue(P, event) ==
    LET key == <<event.resident_id, event.event_type>>
    IN  EventDue(event.ts, P.last_event_at[key], proactive_cooldown)
        /\ P.last_event_signature[key] # Some(event_signature(event))

\* evaluate_and_enqueue: the proactive state after the tick.  The candidates of
\* one tick have distinct event types, hence distinct suppression keys.
\* P is [last_event_at, last_event_signature, queue, enqueued].
evaluate_and_enqueue(P, rid, merged) ==
    IF ~proactive_monitor_enabled THEN P
    ELSE LET cands == collect_events(rid, merged, merged.ts)
             ok(i) == should_enqueue(P, cands[i])
             okIdx == {i \in 1..Len(cands) : ok(i)}
             byKey(k) == {i \in okIdx : <<cands[i].resident_id, cands[i].event_type>> = k}
             accepted == SelectSeq(cands, LAMBDA e : should_enqueue(P, e))
         IN  [ last_event_at |->
                 [k \in DOMAIN P.last_event_at |->
                     IF byKey(k) # {} THEN merged.ts ELSE P.last_event_at[k]],
               last_event_signature |->
                 [k \in DOMAIN P.last_event_signature |->
                     IF byKey(k) # {}
                     THEN Some(event_signature(cands[CHOOSE i \in byKey(k) : TRUE]))
                     ELSE P.last_event_signature[k]],
               queue    |-> P.queue \o accepted,
               enqueued |-> P.enqueued \o accepted ]

RateLimitedOff(history, max_per_minute) == FALSE

\* the rate-window test of _speak on the pruned history
RateLimited(history, max_per_minute) == Len(history) >= max_per_minute

max_per_minute == Max2(1, proactive_max_speaks_per_minute)

\* the history kept by _speak: entries younger than 60 seconds
PruneHistory(history, now) == SelectSeq(history, LAMBDA t : (now - t) < 60)

-----------------------------------------------------------------------------
(* services/retention.py and ingest._maybe_run_retention *)

RetentionIntervalNoFloor(configured) == IF configured = 0 THEN 3600 ELSE configured

\* max(60, int(configured or 3600)): a configured 0 counts as unset
RetentionInterval(configured) == Max2(60, IF configured = 0 THEN 3600 ELSE configured)

retention_interval == RetentionInterval(retention_run_interval_seconds)

\* run_retention_cleanup on the tables of S at wall-clock second `now`
run_retention_cleanup(S, now) ==
    IF ~retention_enabled THEN S
    ELSE LET today == date_from_ts(now)
             keepH == {k \in DOMAIN S.hourly_rollups :
                          ~(date_from_ts(k[2]) < today - Max2(0, retention_hourly_rollups_days))}
             keepD == {k \in DOMAIN S.daily_rollups :
                          ~(k[2] < today - Max2(0, retention_daily_rollups_days))}
         IN  [S EXCEPT
                !.metric_samples = SelectSeq(@, LAMBDA r :
                    ~(r.ts < now - Max2(0, retention_metric_samples_days) * 86400)),
                !.exercise_samples = SelectSeq(@, LAMBDA r :
                    ~(r.ts < now - Max2(0, retention_exercise_metric_samples_days) * 86400)),
                !.ingest_events = SelectSeq(@, LAMBDA r :
                    ~(r.ts < now - Max2(0, retention_ingest_events_days) * 86400)),
                !.hourly_rollups = [k \in keepH |-> S.hourly_rollups[k]],
                !.daily_rollups = [k \in keepD |-> S.daily_rollups[k]] ]

maybe_run_retention(S, now) ==
    IF now - S.LAST_RETENTION_RUN_TS < retention_interval THEN S
    ELSE run_retention_cleanup([S EXCEPT !.LAST_RETENTION_RUN_TS = now,
                                         !.LAST_RETENTION_REPORT = Some(now)], now)

-----------------------------------------------------------------------------
(* routers/ingest.py: _update_and_push *)

\* The state the ingest path reads and writes, as one record.
IngestState ==
    [ walker_state |-> walker_state, vision_state |-> vision_state,
      merged_state |-> merged_state, LAST_PERSIST |-> LAST_PERSIST,
      LAST_ANALYTICS_PERSIST |-> LAST_ANALYTICS_PERSIST,
      SAMPLE_COUNTER |-> SAMPLE_COUNTER,
      LAST_RETENTION_RUN_TS |-> LAST_RETENTION_RUN_TS,
      LAST_RETENTION_REPORT |-> LAST_RETENTION_REPORT,
      LAST_PACKET_SIGNATURE |-> LAST_PACKET_SIGNATURE,
      INGEST_STATS |-> INGEST_STATS, last_event_ts |-> last_event_ts,
      last_steps |-> last_steps, last_step_change_ts |-> last_step_change_ts,
      resident_rows |-> resident_rows, metric_samples |-> metric_samples,
      exercise_samples |-> exercise_samples, ingest_events |-> ingest_events,
      hourly_rollups |-> hourly_rollups, daily_rollups |-> daily_rollups,
      queue |-> queue, last_event_at |-> last_event_at,
      last_event_signature |-> last_event_signature,
      broadcasts |-> broadcasts, enqueued |-> enqueued ]

MergedUpdate(scope, rid, merged) ==
    [type |-> "merged_update", scope |-> scope, residentId |-> rid, data |-> merged]

CompactPayload(rid, merged) ==
    [residentId |-> rid, ts |-> merged.ts, metrics |-> merged.metrics]

MetricSampleRow(rid, merged, w, v, keep_full) ==
    [ resident_id |-> rid,
      ts          |-> merged.ts,
      walker_json |-> IF keep_full THEN w ELSE None,
      vision_json |-> IF keep_full THEN v ELSE None,
      merged_json |-> IF keep_full THEN merged ELSE CompactPayload(rid, merged) ]

\* _persist_exercise_sample; `x or y` takes y when x is None or 0
ExerciseSampleRow(rid, merged) ==
    LET v  == merged.vision
        vs == IF IsNone(v) THEN None ELSE Get(v).stepCount
    IN  [ resident_id    |-> rid,
          ts             |-> merged.ts,
          fall_suspected |-> (IF IsNone(v) THEN FALSE ELSE Get(v).fallSuspected)
                             \/ merged.metrics.fallSuspected,
          step_count     |-> IF (~IsNone(vs)) /\ Get(vs) # 0 THEN vs
                             ELSE merged.metrics.steps,
          steps_merged   |-> merged.metrics.steps,
          tilt_deg       |-> merged.metrics.tiltDeg ]

Bump(stats, field) == [stats EXCEPT ![field] = @ + 1]

AnalyticsDueByInterval(critical, now, last) == now - last >= analytics_interval

\* the test that guards persist_analytics_tick in _update_and_push
AnalyticsDue(critical, now, last) == critical \/ now - last >= analytics_interval

update_and_push_head_setdefault(S, rid, merged) ==
    LET P == evaluate_and_enqueue(
                 [last_event_at |-> S.last_event_at,
                  last_event_signature |-> S.last_event_signature,
                  queue |-> S.queue, enqueued |-> S.enqueued], rid, merged)
    IN  [S EXCEPT
           !.merged_state = [@ EXCEPT ![rid] = IF IsNone(@) THEN Some(merged) ELSE @],
           !.last_event_at = P.last_event_at,
           !.last_event_signature = P.last_event_signature,
           !.queue = P.queue,
           !.enqueued = P.enqueued,
           !.broadcasts = @ \o <<MergedUpdate("all", rid, merged),
                                 MergedUpdate("resident", rid, merged)>>]

\* _update_and_push from `merged_state[resident_id] = merged` to the call of
\* broadcast_all: nothing in it suspends (the alert queue is unbounded).  The
\* two events are recorded as handed to the hub.
update_and_push_head(S, rid, merged) ==
    LET P == evaluate_and_enqueue(
                 [last_event_at |-> S.last_event_at,
                  last_event_signature |-> S.last_event_signature,
                  queue |-> S.queue, enqueued |-> S.enqueued], rid, merged)
    IN  [S EXCEPT
           !.merged_state = [@ EXCEPT ![rid] = Some(merged)],
           !.last_event_at = P.last_event_at,
           !.last_event_signature = P.last_event_signature,
           !.queue = P.queue,
           !.enqueued = P.enqueued,
           !.broadcasts = @ \o <<MergedUpdate("all", rid, merged),
                                 MergedUpdate("resident", rid, merged)>>]

\* _update_and_push after its broadcasts, up to and including its commit, at
\* wall-clock second `now`: S is the state the task finds when it resumes,
\* previous_merged and merged are the task's locals; `written` says that the
\* snapshot branch was taken
update_and_push_tail(S, rid, now, previous_merged, merged) ==
    LET metrics  == merged.metrics
        critical == Critical(metrics)
        effective_persist_interval ==
            IF critical THEN risk_persist_interval ELSE persist_interval
        analytics == AnalyticsDue(critical, now, S.LAST_ANALYTICS_PERSIST[rid])
        A0 == [last_event_ts |-> S.last_event_ts, last_steps |-> S.last_steps,
               last_step_change_ts |-> S.last_step_change_ts,
               ingest_events |-> S.ingest_events,
               hourly_rollups |-> S.hourly_rollups, daily_rollups |-> S.daily_rollups]
        A  == IF analytics THEN persist_analytics_tick(A0, rid, merged, analytics_interval)
              ELSE A0
        S1 == [S EXCEPT
                 !.resident_rows = @ \cup {rid},
                 !.LAST_ANALYTICS_PERSIST =
                     IF analytics THEN [@ EXCEPT ![rid] = now] ELSE @,
                 !.last_event_ts = A.last_event_ts,
                 !.last_steps = A.last_steps,
                 !.last_step_change_ts = A.last_step_change_ts,
                 !.ingest_events = A.ingest_events,
                 !.hourly_rollups = A.hourly_rollups,
                 !.daily_rollups = A.daily_rollups]
        skip == [S1 EXCEPT !.INGEST_STATS = Bump(@, "persist_skips_interval")]
        counter   == S.SAMPLE_COUNTER[rid] + 1
        keep_full == KeepFullPayload(counter)
        written == [S1 EXCEPT
                 !.LAST_PERSIST = [@ EXCEPT ![rid] = now],
                 !.SAMPLE_COUNTER = [@ EXCEPT ![rid] = counter],
                 !.metric_samples = Append(@, MetricSampleRow(rid, merged,
                                        S.walker_state[rid], S.vision_state[rid], keep_full)),
                 !.exercise_samples = Append(@, ExerciseSampleRow(rid, merged)),
                 !.INGEST_STATS = Bump(@, "persist_writes")]
    IN  IF ~PersistDue(now, S.LAST_PERSIST[rid], effective_persist_interval)
        THEN [state |-> skip, written |-> FALSE]
        ELSE IF (~critical) /\ ~is_significant_change(previous_merged, merged)
        THEN [state |-> skip, written |-> FALSE]
        ELSE [state |-> written, written |-> TRUE]

\* the fused state _update_and_push computes from the readings stored in S
Fused(S, rid, now) == compute_merged(rid, S.walker_state[rid], S.vision_state[rid], now)

\* _update_and_push(resident_id, db) up to and including its commit when no
\* other task runs during its broadcasts, from the state S in which the
\* packet's reading is already stored
update_and_push_commit(S, rid, now) ==
    update_and_push_tail(update_and_push_head(S, rid, Fused(S, rid, now)),
                         rid, now, S.merged_state[rid], Fused(S, rid, now))

RolledBackRawOnly(M, D) ==
    [M EXCEPT !.resident_rows = D.resident_rows,
              !.metric_samples = D.metric_samples,
              !.ingest_events = D.ingest_events,
              !.hourly_rollups = D.hourly_rollups,
              !.daily_rollups = D.daily_rollups]

\* the tables of D in the state M: what the database holds when the session
\* of a request that left memory as in M is closed without its commit
RolledBack(M, D) ==
    [M EXCEPT !.resident_rows = D.resident_rows,
              !.metric_samples = D.metric_samples,
              !.exercise_samples = D.exercise_samples,
              !.ingest_events = D.ingest_events,
              !.hourly_rollups = D.hourly_rollups,
              !.daily_rollups = D.daily_rollups]

Failures == {"commit", "retention"}

\* _update_and_push(resident_id, db) when nothing raises ("none": a written
\* tick goes on to _maybe_run_retention), when the commit the tick reaches
\* raises ("commit": memory keeps what was assigned before it, the session's
\* rows are lost, persist_writes is not counted, the sweep is not reached) or
\* when the sweep the tick starts raises ("retention": _LAST_RETENTION_RUN_TS
\* is already set, nothing is deleted).  `raised` says that the exception left
\* _update_and_push; a tick that starts no sweep cannot fail in it.
\* c is the tick up to its commit, S the state the call began with.
after_commit(c, S, now, failure) ==
    IF failure = "none"
    THEN [state |-> IF c.written THEN maybe_run_retention(c.state, now) ELSE c.state,
          raised |-> FALSE]
    ELSE IF failure = "commit"
    THEN [state |-> RolledBack([c.state EXCEPT !.INGEST_STATS.persist_writes =
                                    S.INGEST_STATS.persist_writes], S),
          raised |-> TRUE]
    ELSE IF c.written /\ ~(now - c.state.LAST_RETENTION_RUN_TS < retention_interval)
    THEN [state |-> [c.state EXCEPT !.LAST_RETENTION_RUN_TS = now], raised |-> TRUE]
    ELSE [state |-> c.state, raised |-> FALSE]

update_and_push_raising(S, rid, now, failure) ==
    after_commit(update_and_push_commit(S, rid, now), S, now, failure)

\* _update_and_push(resident_id, db) when nothing raises
update_and_push(S, rid, now) == update_and_push_raising(S, rid, now, "none").state

-----------------------------------------------------------------------------
(* routers/ingest.py: post_walker and post_vision *)

StatField(source, suffix) ==
    CASE source = "walker" /\ suffix = "packets" -> "walker_packets"
      [] source = "walker" /\ suffix = "deduped" -> "walker_deduped"
      [] source = "walker" /\ suffix = "last"    -> "last_walker_ts"
      [] source = "vision" /\ suffix = "packets" -> "vision_packets"
      [] source = "vision" /\ suffix = "deduped" -> "vision_deduped"
      [] OTHER                                   -> "last_vision_ts"

\* The dumped packet: the payload fields, the resident and the normalized ts.
Dumped(payload, rid, ts) ==
    [f \in (DOMAIN payload) \cup {"residentId", "ts"} |->
        IF f = "residentId" THEN rid ELSE IF f = "ts" THEN ts ELSE payload[f]]

\* The answer of an ingest call, with the call's number and the signature of
\* the packet it answered.
Answer(seq, source, rid, sig, status, deduped) ==
    [seq |-> seq, source |-> source, rid |-> rid, sig |-> Some(sig),
     status |-> status, deduped |-> deduped]

\* the answer to a call whose _update_and_push ended as f: 500 when it raised
Served(f, seq, source, rid, sig) ==
    [state |-> f.state,
     response |-> Answer(seq, source, rid, sig, IF f.raised THEN 500 ELSE 200, FALSE)]

\* post_walker / post_vision up to the call of _update_and_push: the ingest
\* state with the reading stored, the answer, and whether _update_and_push is
\* reached (not for a refused or duplicate packet)
Boundary(S, source, rid, payload, rawts, nowMs) ==
    LET now  == Epoch + (nowMs \div 1000)
        seq  == response.seq + 1
        norm == normalize_packet_ts(rawts, now)
        d    == Dumped(payload, rid, norm.ts)
        stats0 == IF ResidentMismatch(rid) THEN Bump(S.INGEST_STATS, "resident_rejected")
                  ELSE S.INGEST_STATS
        stats1 == [stats0 EXCEPT
                     !.ts_normalized = @ + norm.normalized,
                     !.ts_rejected = @ + norm.rejected,
                     ![StatField(source, "packets")] = @ + 1,
                     ![StatField(source, "last")] = Some(d.ts)]
        key  == <<source, rid>>
        sig  == Signature(d)
        prev == S.LAST_PACKET_SIGNATURE[key]
        dup  == DedupeWindowMs > 0 /\ IsDuplicate(prev, sig, nowMs)
        sigs == IF DedupeWindowMs > 0
                THEN RememberPacket(S.LAST_PACKET_SIGNATURE, key, sig, nowMs)
                ELSE S.LAST_PACKET_SIGNATURE
        S1   == [S EXCEPT !.INGEST_STATS = stats1, !.LAST_PACKET_SIGNATURE = sigs]
        S2   == IF source = "walker"
                THEN [S1 EXCEPT !.walker_state = [@ EXCEPT ![rid] = Some(d)]]
                ELSE [S1 EXCEPT !.vision_state = [@ EXCEPT ![rid] = Some(d)]]
    IN  IF rid = ""
        THEN [state |-> S, response |-> Answer(seq, source, rid, sig, 400, FALSE),
              proceed |-> FALSE]
        ELSE IF dup
        THEN [state |-> [S1 EXCEPT !.INGEST_STATS = Bump(@, StatField(source, "deduped"))],
              response |-> Answer(seq, source, rid, sig, 200, TRUE), proceed |-> FALSE]
        ELSE [state |-> S2, response |-> Answer(seq, source, rid, sig, 200, FALSE),
              proceed |-> TRUE]

\* the rest of the handler after the boundary ended as b: `await
\* _update_and_push(resident_id, db)` with no other task running meanwhile
Pushed(b, rid, now, failure) ==
    IF b.proceed
    THEN Served(update_and_push_raising(b.state, rid, now, failure),
                b.response.seq, b.response.source, rid, Get(b.response.sig))
    ELSE [state |-> b.state, response |-> b.response]

\* the next ingest state and the answer.  `failure` is "none", or the step
\* of _update_and_push that raises: the handlers catch nothing but the
\* ValueError of the identifier, so the call is then answered 500.
post_packet_with(S, source, rid, payload, rawts, nowMs, failure) ==
    Pushed(Boundary(S, source, rid, payload, rawts, nowMs), rid,
           Epoch + (nowMs \div 1000), failure)

\* post_walker / post_vision when nothing raises after the boundary
post_packet(S, source, rid, payload, rawts, nowMs) ==
    post_packet_with(S, source, rid, payload, rawts, nowMs, "none")

\* The ingest variables take the values of the record R.
SetIngest(R) ==
    /\ walker_state' = R.walker_state
    /\ vision_state' = R.vision_state
    /\ merged_state' = R.merged_state
    /\ LAST_PERSIST' = R.LAST_PERSIST
    /\ LAST_ANALYTICS_PERSIST' = R.LAST_ANALYTICS_PERSIST
    /\ SAMPLE_COUNTER' = R.SAMPLE_COUNTER
    /\ LAST_RETENTION_RUN_TS' = R.LAST_RETENTION_RUN_TS
    /\ LAST_RETENTION_REPORT' = R.LAST_RETENTION_REPORT
    /\ LAST_PACKET_SIGNATURE' = R.LAST_PACKET_SIGNATURE
    /\ INGEST_STATS' = R.INGEST_STATS
    /\ last_event_ts' = R.last_event_ts
    /\ last_steps' = R.last_steps
    /\ last_step_change_ts' = R.last_step_change_ts
    /\ resident_rows' = R.resident_rows
    /\ metric_samples' = R.metric_samples
    /\ exercise_samples' = R.exercise_samples
    /\ ingest_events' = R.ingest_events
    /\ hourly_rollups' = R.hourly_rollups
    /\ daily_rollups' = R.daily_rollups
    /\ queue' = R.queue
    /\ last_event_at' = R.last_event_at
    /\ last_event_signature' = R.last_event_signature
    /\ broadcasts' = R.broadcasts
    /\ enqueued' = R.enqueued

-----------------------------------------------------------------------------
(* services/ws_manager.py: ConnectionManager, and routers/ws.py: _ws_loop *)

Sockets == {"ws_1", "ws_2"}

\* the worker tasks start() can create
MaxTasks == 3

Tasks == 1..MaxTasks

WorkersUnchanged ==
    UNCHANGED <<worker_task, task_state, task_event, stop_pending, dispatched>>

\* The hub's state as one record.
Hub ==
    [ all_connections |-> all_connections,
      resident_subscribers |-> resident_subscribers,
      connection_to_resident |-> connection_to_resident,
      inbox |-> inbox ]

\* f without the key k
Pop(f, k) == [x \in (DOMAIN f) \ {k} |-> f[x]]

\* f with f[k] = v, k added when absent
Put(f, k, v) == [x \in (DOMAIN f) \cup {k} |-> IF x = k THEN v ELSE f[x]]

\* Python's truth value of an Optional[str]
HasResident(resident_id) == (~IsNone(resident_id)) /\ Get(resident_id) # ""

DisconnectAllOnly(H, ws) == [H EXCEPT !.all_connections = @ \ {ws}]

\* disconnect(websocket)
Disconnect(H, ws) ==
    LET resident_id == IF ws \in DOMAIN H.connection_to_resident
                       THEN H.connection_to_resident[ws] ELSE None
        subs == H.resident_subscribers
        known == HasResident(resident_id) /\ Get(resident_id) \in DOMAIN subs
        left == IF known THEN subs[Get(resident_id)] \ {ws} ELSE {}
    IN  [H EXCEPT
           !.connection_to_resident = Pop(@, ws),
           !.all_connections = @ \ {ws},
           !.resident_subscribers =
               IF known
               THEN IF left = {} THEN Pop(subs, Get(resident_id))
                    ELSE Put(subs, Get(resident_id), left)
               ELSE subs]

\* connect(websocket, resident_id), after websocket.accept() returned
Connect(H, ws, resident_id) ==
    [H EXCEPT
       !.all_connections = @ \cup {ws},
       !.connection_to_resident = Put(@, ws, resident_id),
       !.resident_subscribers =
           IF ~HasResident(resident_id) THEN @
           ELSE Put(@, Get(resident_id),
                    (IF Get(resident_id) \in DOMAIN @ THEN @[Get(resident_id)] ELSE {})
                        \cup {ws})]

\* _safe_send(websocket, payload); ok is whether send_json succeeds
safe_send(H, ws, payload, ok) ==
    IF ok THEN [H EXCEPT !.inbox = [@ EXCEPT ![ws] = Append(@, payload)]]
    ELSE Disconnect(H, ws)

\* the loop `for ws in list(targets): await self._safe_send(ws, payload)`;
\* dead is the set of sockets whose send raises
RECURSIVE SendEach(_, _, _, _)
SendEach(H, targets, payload, dead) ==
    IF targets = {} THEN H
    ELSE LET ws == CHOOSE x \in targets : TRUE
         IN  SendEach(safe_send(H, ws, payload, ws \notin dead),
                      targets \ {ws}, payload, dead)

broadcast_all(H, payload, dead) == SendEach(H, H.all_connections, payload, dead)

SubscribersOf(H, resident_id) ==
    IF resident_id \in DOMAIN H.resident_subscribers
    THEN H.resident_subscribers[resident_id] ELSE {}

broadcast_resident(H, resident_id, payload, dead) ==
    SendEach(H, SubscribersOf(H, resident_id), payload, dead)

\* the event _update_and_push hands to both broadcasts
MergedUpdateEvent(merged) == [type |-> "merged_update", data |-> merged]

SnapshotDataUnscoped(merged, resident_id) ==
    {Get(merged[r]) : r \in {x \in Residents : ~IsNone(merged[x])}}

\* what _ws_loop puts in the snapshot: the subject's state or nothing for a
\* per-subject subscription, every known state otherwise (as a set: the
\* order of the list is the order in which the subjects were first seen)
SnapshotData(merged, resident_id) ==
    IF HasResident(resident_id)
    THEN IF IsNone(merged[Get(resident_id)]) THEN {} ELSE {Get(merged[Get(resident_id)])}
    ELSE {Get(merged[r]) : r \in {x \in Residents : ~IsNone(merged[x])}}

SnapshotEvent(merged, resident_id) ==
    [type |-> "snapshot", data |-> SnapshotData(merged, resident_id)]

\* _ws_loop from the return of websocket.accept() to the first receive_text():
\* the rest of connect, then the snapshot; a failed send ends in disconnect
Subscribe(H, ws, resident_id, merged, ok) ==
    LET H1 == Connect(H, ws, resident_id)
    IN  IF ok
        THEN [H1 EXCEPT !.inbox =
                 [@ EXCEPT ![ws] = Append(@, SnapshotEvent(merged, resident_id))]]
        ELSE Disconnect(H1, ws)

RECURSIVE SubscribeEach(_, _, _, _)
SubscribeEach(H, joiners, residents, merged) ==
    IF joiners = {} THEN H
    ELSE LET ws == CHOOSE x \in joiners : TRUE
         IN  SubscribeEach(Subscribe(H, ws, residents[ws], merged, TRUE),
                           joiners \ {ws}, residents, merged)

SetHub(H) ==
    /\ all_connections' = H.all_connections
    /\ resident_subscribers' = H.resident_subscribers
    /\ connection_to_resident' = H.connection_to_resident
    /\ inbox' = H.inbox

Accepting == {ws \in Sockets : ws_phase[ws] = "accepting"}

\* The two broadcasts of _update_and_push for the call answered by r; a
\* rejected or duplicate packet publishes nothing.  Any of the sockets a
\* broadcast sends to may fail.  The broadcasts await each send, so a
\* subscription whose accept() was pending may complete meanwhile: `joiners`
\* subscribe after broadcast_all copied its list and before
\* broadcast_resident copies its own.
Publish(r, rid) ==
    IF r.response.status # 400 /\ ~r.response.deduped
    THEN LET event == MergedUpdateEvent(Get(r.state.merged_state[rid]))
         IN  \E dead1 \in SUBSET all_connections, joiners \in SUBSET Accepting :
               LET H1 == broadcast_all(Hub, event, dead1)
                   H2 == SubscribeEach(H1, joiners, ws_resident, r.state.merged_state)
               IN  \E dead2 \in SUBSET SubscribersOf(H2, rid) :
                     /\ SetHub(broadcast_resident(H2, rid, event, dead2))
                     /\ send_failed' = dead1 \cup dead2
                     /\ ws_phase' = [ws \in Sockets |->
                                        IF ws \in joiners THEN "open" ELSE ws_phase[ws]]
    ELSE /\ UNCHANGED <<all_connections, resident_subscribers,
                        connection_to_resident, inbox, ws_phase>>
         /\ send_failed' = {}

\* The clock value of the subject's latest durable write, after a call at
\* clock value nowMs that left the ingest state R.
WriteClock(R, rid, nowMs) ==
    IF R.INGEST_STATS.persist_writes > INGEST_STATS.persist_writes
    THEN [last_write_ms EXCEPT ![rid] = Some(nowMs)]
    ELSE last_write_ms

\* POST /api/walker, dt milliseconds after the previous step
PostWalker(rid, payload, rawts, dt) ==
    LET r == post_packet(IngestState, "walker", rid, payload, rawts, clock + dt)
    IN  /\ clock' = clock + dt
        /\ SetIngest(r.state)
        /\ response' = r.response
        /\ request_ts' = rawts
        /\ last_write_ms' = WriteClock(r.state, rid, clock + dt)
        /\ Publish(r, rid)
        /\ WorkersUnchanged
        /\ UNCHANGED <<running, last_speak_by_resident, resident_to_session,
                       broadcast_configured, spoken_log, avatar_channel, ws_resident,
                       retention_run_interval_seconds, proactive_monitor_enabled, ingest_task>>

\* POST /api/walker when the given step of _update_and_push raises
PostWalkerRaising(rid, payload, rawts, dt, failure) ==
    LET r == post_packet_with(IngestState, "walker", rid, payload, rawts, clock + dt, failure)
    IN  /\ clock' = clock + dt
        /\ SetIngest(r.state)
        /\ response' = r.response
        /\ request_ts' = rawts
        /\ last_write_ms' = WriteClock(r.state, rid, clock + dt)
        /\ Publish(r, rid)
        /\ WorkersUnchanged
        /\ UNCHANGED <<running, last_speak_by_resident, resident_to_session,
                       broadcast_configured, spoken_log, avatar_channel, ws_resident,
                       retention_run_interval_seconds, proactive_monitor_enabled, ingest_task>>

\* POST /api/vision, dt milliseconds after the previous step
PostVision(rid, payload, rawts, dt) ==
    LET r == post_packet(IngestState, "vision", rid, payload, rawts, clock + dt)
    IN  /\ clock' = clock + dt
        /\ SetIngest(r.state)
        /\ response' = r.response
        /\ request_ts' = rawts
        /\ last_write_ms' = WriteClock(r.state, rid, clock + dt)
        /\ Publish(r, rid)
        /\ WorkersUnchanged
        /\ UNCHANGED <<running, last_speak_by_resident, resident_to_session,
                       broadcast_configured, spoken_log, avatar_channel, ws_resident,
                       retention_run_interval_seconds, proactive_monitor_enabled, ingest_task>>

Packets == INGEST_STATS.walker_packets + INGEST_STATS.vision_packets

-----------------------------------------------------------------------------
(* Initial state: the module-level dictionaries and the tables are empty *)

\* the requests that can be in flight at once
IngestTasks == {"t_1", "t_2"}

\* no request in flight
IdleTask ==
    [pc |-> "idle", rid |-> "", source |-> "", sig |-> None,
     previous_merged |-> None, merged |-> None, targets |-> {}]

InitStats ==
    [ walker_packets |-> 0, vision_packets |-> 0, walker_deduped |-> 0,
      vision_deduped |-> 0, resident_rejected |-> 0, ts_normalized |-> 0,
      ts_rejected |-> 0, persist_writes |-> 0, persist_skips_interval |-> 0,
      last_walker_ts |-> None, last_vision_ts |-> None ]

InitProgram ==
    /\ clock = 0
    /\ ingest_task = [t \in IngestTasks |-> IdleTask]
    /\ walker_state = [r \in Residents |-> None]
    /\ vision_state = [r \in Residents |-> None]
    /\ merged_state = [r \in Residents |-> None]
    /\ LAST_PERSIST = [r \in Residents |-> 0]
    /\ LAST_ANALYTICS_PERSIST = [r \in Residents |-> 0]
    /\ SAMPLE_COUNTER = [r \in Residents |-> 0]
    /\ LAST_RETENTION_RUN_TS = 0
    /\ LAST_RETENTION_REPORT = None
    /\ LAST_PACKET_SIGNATURE = [k \in Sources \X Residents |-> [sig |-> None, ms |-> 0]]
    /\ INGEST_STATS = InitStats
    /\ last_event_ts = [k \in Residents \X DurableEventTypes |-> 0]
    /\ last_steps = [r \in Residents |-> None]
    /\ last_step_change_ts = [r \in Residents |-> None]
    /\ resident_rows = {}
    /\ metric_samples = << >>
    /\ exercise_samples = << >>
    /\ ingest_events = << >>
    /\ hourly_rollups = << >>
    /\ daily_rollups = << >>
    /\ queue = << >>
    /\ running = FALSE
    /\ last_event_at = [k \in Residents \X ProactiveEventTypes |-> 0]
    /\ last_event_signature = [k \in Residents \X ProactiveEventTypes |-> None]
    /\ last_speak_by_resident = [r \in Residents |-> << >>]
    /\ resident_to_session = [r \in Residents |-> None]
    /\ broadcast_configured = FALSE
    /\ broadcasts = << >>
    /\ enqueued = << >>
    /\ spoken_log = << >>
    /\ avatar_channel = << >>
    /\ last_write_ms = [r \in Residents |-> None]
    /\ all_connections = {}
    /\ resident_subscribers = << >>
    /\ connection_to_resident = << >>
    /\ inbox = [ws \in Sockets |-> << >>]
    /\ ws_phase = [ws \in Sockets |-> "idle"]
    /\ ws_resident = [ws \in Sockets |-> None]
    /\ send_failed = {}
    /\ worker_task = None
    /\ task_state = [t \in Tasks |-> "unborn"]
    /\ task_event = [t \in Tasks |-> None]
    /\ stop_pending = FALSE
    /\ dispatched = << >>
    /\ request_ts = None
    /\ response = [seq |-> 0, source |-> "", rid |-> "", sig |-> None,
                   status |-> 0, deduped |-> FALSE]

\* the settings are the defaults of core/config.py
Init ==
    /\ InitProgram
    /\ retention_run_interval_seconds = 3600
    /\ proactive_monitor_enabled = TRUE

-----------------------------------------------------------------------------
(* services/proactive_monitor.py: the dispatcher *)

IngestUnchanged ==
    UNCHANGED <<clock, walker_state, vision_state, merged_state, LAST_PERSIST,
                LAST_ANALYTICS_PERSIST, SAMPLE_COUNTER, LAST_RETENTION_RUN_TS,
                LAST_PACKET_SIGNATURE, INGEST_STATS, last_event_ts, last_steps,
                last_step_change_ts, resident_rows, metric_samples, exercise_samples,
                ingest_events, hourly_rollups, daily_rollups, last_event_at,
                last_event_signature, enqueued, last_write_ms, all_connections,
                resident_subscribers, connection_to_resident, inbox, ws_phase,
                ws_resident, send_failed, request_ts, response,
                retention_run_interval_seconds, proactive_monitor_enabled, ingest_task,
                LAST_RETENTION_REPORT>>

\* start(): a second call finds _running set and returns; otherwise a new
\* worker task is created and becomes the service's _worker_task
Start ==
    /\ ~running
    /\ \E t \in Tasks :
          /\ task_state[t] = "unborn"
          /\ \A u \in Tasks : u < t => task_state[u] # "unborn"
          /\ worker_task' = Some(t)
          /\ task_state' = [task_state EXCEPT ![t] = "waiting"]
    /\ running' = TRUE
    /\ IngestUnchanged
    /\ UNCHANGED <<queue, last_speak_by_resident, resident_to_session,
                   broadcast_configured, broadcasts, spoken_log, avatar_channel, task_event,
                   stop_pending, dispatched>>

ConfigureBroadcasts ==
    /\ ~broadcast_configured
    /\ broadcast_configured' = TRUE
    /\ IngestUnchanged
    /\ WorkersUnchanged
    /\ UNCHANGED <<queue, running, last_speak_by_resident, resident_to_session,
                   broadcasts, spoken_log, avatar_channel>>

\* set_resident_session(rid, sid) with a non-empty rid; an empty sid unmaps
SetResidentSession(rid, sid) ==
    /\ resident_to_session[rid] # (IF sid = "" THEN None ELSE Some(sid))
    /\ resident_to_session' =
           [resident_to_session EXCEPT ![rid] = IF sid = "" THEN None ELSE Some(sid)]
    /\ IngestUnchanged
    /\ WorkersUnchanged
    /\ UNCHANGED <<queue, running, last_speak_by_resident, broadcast_configured,
                   broadcasts, spoken_log, avatar_channel>>

\* clear_session(sid): every subject mapped to sid is unmapped; an empty sid
\* and a sid no subject is mapped to change nothing
ClearSession(sid) ==
    /\ resident_to_session' =
           [r \in Residents |->
               IF sid # "" /\ resident_to_session[r] = Some(sid) THEN None
               ELSE resident_to_session[r]]
    /\ IngestUnchanged
    /\ WorkersUnchanged
    /\ UNCHANGED <<queue, running, last_speak_by_resident, broadcast_configured,
                   broadcasts, spoken_log, avatar_channel>>

\* _speak at wall-clock second `now`: the outcome and the rate window after it.
\* tts_ok and speak_ok are the answers of the speech and channel collaborators.
speak(history0, now, tts_ok, speak_ok) ==
    LET history == PruneHistory(history0, now)
    IN  IF RateLimited(history, max_per_minute)
        THEN [spoken |-> FALSE, error |-> "rate_limited", history |-> history]
        ELSE IF ~tts_ok
        THEN [spoken |-> FALSE, error |-> "tts failed", history |-> history0]
        ELSE IF ~speak_ok
        THEN [spoken |-> FALSE, error |-> "avatar speak failed", history |-> history0]
        ELSE [spoken |-> TRUE, error |-> "", history |-> Append(history, now)]

channel_ops_always_interrupt(history0, now, tts_ok, interrupt) ==
    IF RateLimited(PruneHistory(history0, now), max_per_minute) THEN << >>
    ELSE IF ~tts_ok THEN << >>
    ELSE <<"interrupt", "audio">>

\* what _speak asks lite_agent_manager to do, in order: send_interrupt when
\* `interrupt` is set, then speak_pcm; nothing when rate limited or when the
\* synthesis failed
channel_ops(history0, now, tts_ok, interrupt) ==
    IF RateLimited(PruneHistory(history0, now), max_per_minute) THEN << >>
    ELSE IF ~tts_ok THEN << >>
    ELSE (IF interrupt THEN <<"interrupt">> ELSE << >>) \o <<"audio">>

\* the requests ops as addressed to the avatar session sid
ChannelSent(sid, ops) == [i \in 1..Len(ops) |-> [session |-> sid, op |-> ops[i]]]

ProactiveNotice(scope, event, spoken, error) ==
    [type |-> "proactive_event", scope |-> scope, residentId |-> event.resident_id,
     eventType |-> event.event_type, severity |-> event.severity,
     spoken |-> spoken, ts |-> event.ts, error |-> error]

\* _process_event(event): the speech attempt and the notification
ProcessEvent(event, tts_ok, speak_ok) ==
    LET rid   == event.resident_id
        mapped == ~IsNone(resident_to_session[rid])
        out   == IF mapped
                 THEN speak(last_speak_by_resident[rid], now_ts, tts_ok, speak_ok)
                 ELSE [spoken |-> FALSE, error |-> "no active avatar session mapped",
                       history |-> last_speak_by_resident[rid]]
    IN  /\ last_speak_by_resident' = [last_speak_by_resident EXCEPT ![rid] = out.history]
        /\ spoken_log' = IF out.spoken THEN Append(spoken_log, <<rid, now_ts>>)
                         ELSE spoken_log
        /\ avatar_channel' =
               IF mapped
               THEN avatar_channel
                    \o ChannelSent(Get(resident_to_session[rid]),
                                   channel_ops(last_speak_by_resident[rid], now_ts, tts_ok,
                                               event.event_type = "fall"))
               ELSE avatar_channel
        /\ broadcasts' = IF broadcast_configured
                         THEN broadcasts \o
                              <<ProactiveNotice("all", event, out.spoken, out.error),
                                ProactiveNotice("resident", event, out.spoken, out.error)>>
                         ELSE broadcasts

\* one iteration of _worker_loop by the started worker, run without
\* interruption: take the head of the queue, _process_event
WorkerStep(tts_ok, speak_ok) ==
    /\ running
    /\ queue # << >>
    /\ \E t \in Tasks : task_state[t] = "waiting"
    /\ queue' = Tail(queue)
    /\ dispatched' = Append(dispatched, Head(queue))
    /\ ProcessEvent(Head(queue), tts_ok, speak_ok)
    /\ IngestUnchanged
    /\ UNCHANGED <<running, resident_to_session, broadcast_configured,
                   worker_task, task_state, task_event, stop_pending>>

\* `event = await self._queue.get()` returns in worker task t; the loop
\* condition was tested before the task began to wait
WorkerTake(t) ==
    /\ task_state[t] = "waiting"
    /\ queue # << >>
    /\ queue' = Tail(queue)
    /\ dispatched' = Append(dispatched, Head(queue))
    /\ task_state' = [task_state EXCEPT ![t] = "processing"]
    /\ task_event' = [task_event EXCEPT ![t] = Some(Head(queue))]
    /\ IngestUnchanged
    /\ UNCHANGED <<running, resident_to_session, broadcast_configured,
                   last_speak_by_resident, spoken_log, avatar_channel, broadcasts, worker_task,
                   stop_pending>>

\* worker task t completes _process_event and tests `while self._running`
WorkerFinish(t, tts_ok, speak_ok) ==
    /\ task_state[t] = "processing"
    /\ ProcessEvent(Get(task_event[t]), tts_ok, speak_ok)
    /\ task_state' = [task_state EXCEPT ![t] = IF running THEN "waiting" ELSE "done"]
    /\ task_event' = [task_event EXCEPT ![t] = None]
    /\ IngestUnchanged
    /\ UNCHANGED <<queue, running, resident_to_session, broadcast_configured,
                   worker_task, stop_pending, dispatched>>

\* stop() up to its await: clears _running and cancels the task held in
\* _worker_task, which ends at its current await (the alert it was
\* processing is abandoned); with no task held, stop() returns at once
StopBegin ==
    /\ ~stop_pending
    /\ running \/ ~IsNone(worker_task)
    /\ running' = FALSE
    /\ stop_pending' = ~IsNone(worker_task)
    /\ task_state' = [t \in Tasks |->
                         IF worker_task = Some(t) /\ task_state[t] \in {"waiting", "processing"}
                         THEN "done" ELSE task_state[t]]
    /\ task_event' = [t \in Tasks |->
                         IF worker_task = Some(t) THEN None ELSE task_event[t]]
    /\ IngestUnchanged
    /\ UNCHANGED <<queue, resident_to_session, broadcast_configured,
                   last_speak_by_resident, spoken_log, avatar_channel, broadcasts, worker_task,
                   dispatched>>

\* stop() resumes after the cancelled task has ended: _worker_task = None
StopEnd ==
    /\ stop_pending
    /\ stop_pending' = FALSE
    /\ worker_task' = None
    /\ IngestUnchanged
    /\ UNCHANGED <<queue, running, resident_to_session, broadcast_configured,
                   last_speak_by_resident, spoken_log, avatar_channel, broadcasts, task_state,
                   task_event, dispatched>>

-----------------------------------------------------------------------------
(* routers/ws.py: the subscriptions on /ws and /ws/live *)

HubUnchanged ==
    UNCHANGED <<clock, walker_state, vision_state, merged_state, LAST_PERSIST,
                LAST_ANALYTICS_PERSIST, SAMPLE_COUNTER, LAST_RETENTION_RUN_TS,
                LAST_PACKET_SIGNATURE, INGEST_STATS, last_event_ts, last_steps,
                last_step_change_ts, resident_rows, metric_samples, exercise_samples,
                ingest_events, hourly_rollups, daily_rollups, queue, running,
                last_event_at, last_event_signature, last_speak_by_resident,
                resident_to_session, broadcast_configured, broadcasts, enqueued,
                spoken_log, avatar_channel, last_write_ms, worker_task, task_state, task_event,
                stop_pending, dispatched, request_ts, response,
                retention_run_interval_seconds, proactive_monitor_enabled, ingest_task,
                LAST_RETENTION_REPORT>>

\* a client opens /ws (resident_id None) or /ws/live?residentId=...; _ws_loop
\* waits in websocket.accept()
WsAccept(ws, resident_id) ==
    /\ ws_phase[ws] = "idle"
    /\ ws_phase' = [ws_phase EXCEPT ![ws] = "accepting"]
    /\ ws_resident' = [ws_resident EXCEPT ![ws] = resident_id]
    /\ HubUnchanged
    /\ UNCHANGED <<all_connections, resident_subscribers, connection_to_resident,
                   inbox, send_failed>>

\* accept() returned: registration and the snapshot, with no publish between
WsRegister(ws, ok) ==
    /\ ws_phase[ws] = "accepting"
    /\ SetHub(Subscribe(Hub, ws, ws_resident[ws], merged_state, ok))
    /\ ws_phase' = [ws_phase EXCEPT ![ws] = IF ok THEN "open" ELSE "closed"]
    /\ HubUnchanged
    /\ UNCHANGED <<ws_resident, send_failed>>

\* receive_text() raised WebSocketDisconnect: the finally clause
WsDisconnect(ws) ==
    /\ ws_phase[ws] = "open"
    /\ SetHub(Disconnect(Hub, ws))
    /\ ws_phase' = [ws_phase EXCEPT ![ws] = "closed"]
    /\ HubUnchanged
    /\ UNCHANGED <<ws_resident, send_failed>>

-----------------------------------------------------------------------------
(* Hub: two sockets subscribing on either scope while packets for two
   subjects are ingested *)

MaxHubPackets == 2

HubPayloads ==
    { [fsrLeft |-> 20, fsrRight |-> 18, tiltDeg |-> <<10>>, steps |-> <<5>>],
      [fsrLeft |-> 12, fsrRight |-> 10, tiltDeg |-> <<12>>, steps |-> <<6>>] }

HubGapMs == 1000

HubScopes == {None, Some("r_1")}

HubWalker ==
    /\ Packets < MaxHubPackets
    /\ \E rid \in Residents, p \in HubPayloads : PostWalker(rid, p, None, HubGapMs)

HubSubscribe == \E ws \in Sockets, resident_id \in HubScopes : WsAccept(ws, resident_id)

HubRegister == \E ws \in Sockets, ok \in BOOLEAN : WsRegister(ws, ok)

HubDisconnect == \E ws \in Sockets : WsDisconnect(ws)

NextHub == HubWalker \/ HubSubscribe \/ HubRegister \/ HubDisconnect

SpecHub == Init /\ [][NextHub]_vars

-----------------------------------------------------------------------------
(* Fusion: device and vision packets over a wide range of payloads *)

MaxFusionPackets == 2

FusionForces == {<<0, 0>>, <<20, 10>>, <<-1, 1>>, <<1, -2>>}

FusionWalkerPayloads ==
    {[fsrLeft |-> f[1], fsrRight |-> f[2], tiltDeg |-> t, steps |-> st] :
        f \in FusionForces, t \in {None, <<59>>, <<60>>, <<61>>}, st \in {None, <<3>>}}

FusionVisionPayloads ==
    {[fallSuspected |-> b, stepCount |-> c] :
        b \in BOOLEAN, c \in {None, <<0>>, <<-1>>, <<5>>}}

FusionGapMs == 1000

FusionWalker ==
    /\ Packets < MaxFusionPackets
    /\ \E p \in FusionWalkerPayloads : PostWalker("r_1", p, None, FusionGapMs)

FusionVision ==
    /\ Packets < MaxFusionPackets
    /\ \E p \in FusionVisionPayloads : PostVision("r_1", p, None, FusionGapMs)

NextFusion == FusionWalker \/ FusionVision

SpecFusion == Init /\ [][NextFusion]_vars

\* C1: the fused fallSuspected flag equals (latest vision reading reports a
\* fall) OR (latest device reading has a tilt and the tilt is >= 60).
C1_FallSuspected ==
    \A r \in Residents :
        (~IsNone(merged_state[r])) =>
            LET w == walker_state[r]
                v == vision_state[r]
            IN  Get(merged_state[r]).metrics.fallSuspected
                    = ( ((~IsNone(v)) /\ Get(v).fallSuspected)
                        \/ ((~IsNone(w)) /\ (~IsNone(Get(w).tiltDeg))
                            /\ Get(Get(w).tiltDeg) >= 60) )

\* a device packet with tilt 60 and no vision packet gave fallSuspected = true
C1_Witness ==
    /\ ~IsNone(merged_state["r_1"])
    /\ IsNone(vision_state["r_1"])
    /\ ~IsNone(walker_state["r_1"])
    /\ Get(walker_state["r_1"]).tiltDeg = <<60>>
    /\ Get(merged_state["r_1"]).metrics.fallSuspected

\* C2 (as claimed): the fused steps equal the vision step count whenever the
\* vision reading carries one (0 and negative values included), and the
\* device step count otherwise.
C2_StepsPreferVision ==
    \A r \in Residents :
        (~IsNone(merged_state[r])) =>
            LET w == walker_state[r]
                v == vision_state[r]
            IN  Get(merged_state[r]).metrics.steps
                    = IF (~IsNone(v)) /\ ~IsNone(Get(v).stepCount) THEN Get(v).stepCount
                      ELSE IF IsNone(w) THEN None ELSE Get(w).steps

\* C3 (as claimed): the fused balance lies in [-1, 1], i.e. |num| <= |den|.
C3_BalanceInRange ==
    \A r \in Residents :
        (~IsNone(merged_state[r])) =>
            LET b == Get(merged_state[r]).metrics.balance
            IN  Abs(b.num) <= Abs(b.den)

-----------------------------------------------------------------------------
(* Ingest: device and vision packets for one subject, close together and far
   apart, some stamped one day ahead of the wall clock *)

MaxPackets == 3

WalkerPayloads ==
    { [fsrLeft |-> 20, fsrRight |-> 18, tiltDeg |-> <<10>>, steps |-> <<5>>],
      [fsrLeft |-> 20, fsrRight |-> 18, tiltDeg |-> <<61>>, steps |-> <<-1>>],
      [fsrLeft |-> 12, fsrRight |-> 10, tiltDeg |-> <<70>>, steps |-> None] }

VisionPayloads == {[fallSuspected |-> b, stepCount |-> None] : b \in BOOLEAN}

\* milliseconds between two calls: inside the dedupe window, beyond every
\* persistence interval and the fall cooldown
Gaps == {100, 50000}

\* the packet's ts field: absent, or the latest second the boundary accepts
PacketTs(future, dt) ==
    IF future THEN TsSec(Epoch + ((clock + dt) \div 1000) + OneDay) ELSE None

IngestWalker ==
    /\ Packets < MaxPackets
    /\ \E p \in WalkerPayloads, dt \in Gaps, future \in BOOLEAN :
           PostWalker("r_1", p, PacketTs(future, dt), dt)

IngestVision ==
    /\ Packets < MaxPackets
    /\ \E p \in VisionPayloads, dt \in Gaps :
           PostVision("r_1", p, None, dt)

Next == IngestWalker \/ IngestVision

Spec == Init /\ [][Next]_vars

\* An ingest call was answered in this step.
Called == response'.seq # response.seq

\* The call of this step carried the payload (timestamp excluded) of the
\* previous packet of its (stream, subject), inside the dedupe window.
RepeatedCall ==
    /\ Called
    /\ LET prev == LAST_PACKET_SIGNATURE[<<response'.source, response'.rid>>]
       IN  /\ prev.sig = response'.sig
           /\ clock' - prev.ms <= ingest_dedupe_window_ms

\* C4 (as claimed): a repeated packet inside the dedupe window is answered with
\* success and leaves the latest readings, the fused state, the ingest health
\* counters and the broadcasts exactly as they were.
C4_DuplicateTouchesNothing ==
    [][RepeatedCall =>
          /\ response'.status = 200
          /\ walker_state' = walker_state
          /\ vision_state' = vision_state
          /\ merged_state' = merged_state
          /\ INGEST_STATS' = INGEST_STATS
          /\ broadcasts' = broadcasts]_vars

\* C5: a repeated packet inside the dedupe window is answered with success,
\* leaves the fused state as the first call left it, and adds no rollup
\* increment, no safety event and no durable snapshot.
C5_DuplicateIdempotent ==
    [][RepeatedCall =>
          /\ response'.status = 200
          /\ merged_state' = merged_state
          /\ hourly_rollups' = hourly_rollups
          /\ daily_rollups' = daily_rollups
          /\ ingest_events' = ingest_events
          /\ metric_samples' = metric_samples
          /\ exercise_samples' = exercise_samples]_vars

\* the second of two equal critical packets was answered as a duplicate, after
\* the first one was fused, rolled up and stored
C5_Witness ==
    /\ response.deduped
    /\ response.status = 200
    /\ ~IsNone(merged_state[response.rid])
    /\ Get(merged_state[response.rid]).metrics.fallSuspected
    /\ Len(metric_samples) = 1
    /\ INGEST_STATS.walker_packets + INGEST_STATS.vision_packets >= 2

\* the positions of the rows of subject r and type t in a sequence of events
EventsOf(events, r, t) ==
    {i \in 1..Len(events) : events[i].resident_id = r /\ events[i].event_type = t}

\* any two events of one (subject, type) are in timestamp order and at least
\* `cooldown` seconds apart
Spaced(events, r, t, cooldown) ==
    \A i, j \in EventsOf(events, r, t) :
        i < j => events[j].ts - events[i].ts >= cooldown

\* C6: on the durable path and on the proactive path, any two events emitted
\* for one (subject, event type) have timestamps ts1 <= ts2 with
\* ts2 - ts1 >= the path's cooldown for that type.
C6_CooldownSpacing ==
    \A r \in Residents :
        /\ \A t \in DurableEventTypes : Spaced(ingest_events, r, t, EventCooldown(t))
        /\ \A t \in ProactiveEventTypes : Spaced(enqueued, r, t, proactive_cooldown)

\* two fall events were recorded and two fall alerts were queued for r_1, in
\* a run where the tick timestamps went backwards (a stored sample is stamped
\* before the sample stored ahead of it)
C6_Witness ==
    /\ Cardinality(EventsOf(ingest_events, "r_1", "fall")) >= 2
    /\ Cardinality(EventsOf(enqueued, "r_1", "fall")) >= 2
    /\ \E i, j \in 1..Len(exercise_samples) :
           i < j /\ exercise_samples[j].ts < exercise_samples[i].ts

\* the fall rows a step appended to the durable events, for subject r
NewFallEvents(r) ==
    { i \in EventsOf(ingest_events', r, "fall") : i > Len(ingest_events) }

\* The call of this step was accepted and fused with fallSuspected = true, and
\* no fall event of the subject lies in the 45 seconds before the tick: none
\* is stamped there, and no analytics tick at all ran in the last 45 seconds
\* of wall-clock time.
QuietFallTick ==
    /\ Called
    /\ response'.status = 200
    /\ ~response'.deduped
    /\ LET r      == response'.rid
           merged == Get(merged_state'[r])
           now    == Epoch + (clock' \div 1000)
       IN  /\ merged.metrics.fallSuspected
           /\ \A i \in EventsOf(ingest_events, r, "fall") :
                  ~(merged.ts - 45 < ingest_events[i].ts /\ ingest_events[i].ts <= merged.ts)
           /\ now - LAST_ANALYTICS_PERSIST[r] >= 45

\* C7 (as claimed): a fall tick that no fall event preceded in the last 45
\* seconds emits exactly one fall event of severity high, whatever packets
\* came before it.
C7_FallEventEmitted ==
    [][QuietFallTick =>
          /\ Cardinality(NewFallEvents(response'.rid)) = 1
          /\ \A i \in NewFallEvents(response'.rid) : ingest_events'[i].severity = "high"]_vars

\* C8: the steps_max of an hourly or daily bucket never decreases from one
\* step to the next, whatever the steps of the sample applied.
C8_StepsMaxMonotone ==
    [][/\ \A k \in (DOMAIN hourly_rollups) \cap (DOMAIN hourly_rollups') :
              hourly_rollups'[k].steps_max >= hourly_rollups[k].steps_max
       /\ \A k \in (DOMAIN daily_rollups) \cap (DOMAIN daily_rollups') :
              daily_rollups'[k].steps_max >= daily_rollups[k].steps_max]_vars

\* a bucket holds steps_max 5 after a later sample with steps -1 landed in it
C8_Witness ==
    /\ last_steps["r_1"] = <<-1>>
    /\ \E k \in DOMAIN hourly_rollups :
           /\ hourly_rollups[k].sample_count >= 2
           /\ hourly_rollups[k].steps_max = 5
    /\ \E k \in DOMAIN daily_rollups :
           /\ daily_rollups[k].sample_count >= 2
           /\ daily_rollups[k].steps_max = 5

-----------------------------------------------------------------------------
(* Alerts: packets that raise fall, high-load and imbalance alerts, and the
   dispatcher draining the queue *)

MaxAlertPackets == 2

\* both payloads raise all three alerts, with different signatures
AlertPayloads ==
    { [fsrLeft |-> 30, fsrRight |-> 10, tiltDeg |-> <<61>>, steps |-> None],
      [fsrLeft |-> 10, fsrRight |-> 30, tiltDeg |-> <<70>>, steps |-> None] }

\* milliseconds between two packets: beyond the alert cooldown, inside and
\* outside the 60-second rate window
AlertGaps == {50000, 70000}

\* Requests are served once application startup is over: the broadcasts are
\* configured, then the worker is started, then packets and sessions arrive.
AlertStart == broadcast_configured /\ Start

AlertWalker ==
    /\ running
    /\ Packets < MaxAlertPackets
    /\ \E p \in AlertPayloads, dt \in AlertGaps : PostWalker("r_1", p, None, dt)

\* an avatar session opens for r_1
AlertSession == running /\ SetResidentSession("r_1", "s_1")

\* speech synthesis answers; the avatar channel accepts the audio or not
AlertWorker == \E speak_ok \in BOOLEAN : WorkerStep(TRUE, speak_ok)

NextAlerts ==
    \/ ConfigureBroadcasts
    \/ AlertStart
    \/ AlertWalker
    \/ AlertSession
    \/ AlertWorker

SpecAlerts == Init /\ [][NextAlerts]_vars

\* the successful spoken alerts of subject r recorded in the 60 seconds that
\* end with the alert at position j
SpokenInWindow(r, j) ==
    { i \in 1..Len(spoken_log) :
        /\ spoken_log[i][1] = r
        /\ spoken_log[j][2] - 60 < spoken_log[i][2]
        /\ spoken_log[i][2] <= spoken_log[j][2] }

\* C9: for every subject, every rolling 60-second window holds at most
\* maxSpeaksPerMinute successful spoken alerts, and so does the subject's
\* rate window.
C9_RateWindow ==
    \A r \in Residents :
        /\ Len(last_speak_by_resident[r]) <= proactive_max_speaks_per_minute
        /\ \A j \in 1..Len(spoken_log) :
               spoken_log[j][1] = r =>
                   Cardinality(SpokenInWindow(r, j)) <= proactive_max_speaks_per_minute

\* four alerts were spoken to r_1 within one window and a fifth was dropped
\* as rate_limited
C9_Witness ==
    /\ Len(last_speak_by_resident["r_1"]) = proactive_max_speaks_per_minute
    /\ \E j \in 1..Len(spoken_log) :
           Cardinality(SpokenInWindow("r_1", j)) = proactive_max_speaks_per_minute
    /\ \E i \in 1..Len(broadcasts) :
           /\ broadcasts[i].type = "proactive_event"
           /\ broadcasts[i].error = "rate_limited"

-----------------------------------------------------------------------------
(* Burst: device packets for one subject in rapid succession, with strictly
   increasing steps (tests/test_burst.py) *)

BurstLen == 200

\* milliseconds between two packets of the burst: the whole burst lies inside
\* the first persistence interval
BurstGapMs == 20

\* the n-th packet of the burst, n = 0, 1, ...
BurstPayload(n) ==
    [fsrLeft |-> 20 + (n % 5), fsrRight |-> 18 + (n % 5),
     tiltDeg |-> Some(n % 12), steps |-> Some(n)]

BurstWalker ==
    /\ Packets < BurstLen
    /\ PostWalker("r_1", BurstPayload(Packets), None, BurstGapMs)

NextBurst == BurstWalker

SpecBurst == Init /\ [][NextBurst]_vars

\* a stored snapshot keeps the raw payloads of both streams
IsFullSnapshot(row) == "walker" \in DOMAIN row.merged_json

FullSnapshots(r) ==
    {i \in 1..Len(metric_samples) :
        metric_samples[i].resident_id = r /\ IsFullSnapshot(metric_samples[i])}

CompactSnapshots(r) ==
    {i \in 1..Len(metric_samples) :
        metric_samples[i].resident_id = r /\ ~IsFullSnapshot(metric_samples[i])}

-----------------------------------------------------------------------------
(* Persistence throttle: packets for one subject whose tilt drifts by one
   degree, whose steps change, or that are critical, within one wall-clock
   second, across a second boundary, and a full interval apart *)

MaxPersistPackets == 3

PersistWalkerPayloads ==
    { [fsrLeft |-> 20, fsrRight |-> 18, tiltDeg |-> <<4>>,  steps |-> <<1>>],
      [fsrLeft |-> 20, fsrRight |-> 18, tiltDeg |-> <<5>>,  steps |-> <<1>>],
      [fsrLeft |-> 20, fsrRight |-> 18, tiltDeg |-> <<6>>,  steps |-> <<1>>],
      [fsrLeft |-> 20, fsrRight |-> 18, tiltDeg |-> <<4>>,  steps |-> <<2>>],
      [fsrLeft |-> 20, fsrRight |-> 18, tiltDeg |-> <<55>>, steps |-> <<1>>] }

PersistVisionPayloads == {[fallSuspected |-> FALSE, stepCount |-> None]}

\* milliseconds between two calls: past the dedupe window, up to the edge of
\* the running second, and one long interval
PersistGaps == {300, 900, 5000}

PersistWalker ==
    /\ Packets < MaxPersistPackets
    /\ \E p \in PersistWalkerPayloads, dt \in PersistGaps : PostWalker("r_1", p, None, dt)

PersistVision ==
    /\ Packets < MaxPersistPackets
    /\ \E p \in PersistVisionPayloads, dt \in PersistGaps : PostVision("r_1", p, None, dt)

NextPersist == PersistWalker \/ PersistVision

SpecPersist == Init /\ [][NextPersist]_vars

\* This step added a raw snapshot row.
SnapshotWritten == Len(metric_samples') > Len(metric_samples)

\* the tick is critical: fallSuspected, or a tilt of at least 50 degrees
CriticalTick(metrics) ==
    metrics.fallSuspected \/ ((~IsNone(metrics.tiltDeg)) /\ Get(metrics.tiltDeg) >= 50)

\* the interval that applies to a tick with these metrics, in milliseconds
EffectiveIntervalMs(metrics) ==
    1000 * (IF CriticalTick(metrics) THEN ingest_risk_persist_interval_seconds
            ELSE ingest_persist_interval_seconds)

\* C11 (as claimed): a tick is written as a raw snapshot only if at least the
\* effective interval (1 s when critical, 5 s otherwise) has passed since the
\* subject's previous durable snapshot.
C11_WriteSpacing ==
    [][SnapshotWritten =>
          LET r == response'.rid
          IN  \/ IsNone(last_write_ms[r])
              \/ clock' - Get(last_write_ms[r])
                     >= EffectiveIntervalMs(Get(merged_state'[r]).metrics)]_vars

\* the metrics of the subject's last durable snapshot, None when it has none
LastWrittenMetrics(r) ==
    LET rows == {i \in 1..Len(metric_samples) : metric_samples[i].resident_id = r}
    IN  IF rows = {} THEN None
        ELSE Some(metric_samples[CHOOSE i \in rows : \A j \in rows : j <= i].merged_json.metrics)

\* step count differs, fall flag differs, or tilt differs by at least 2 degrees
DiffersSignificantly(a, b) ==
    \/ a.steps # b.steps
    \/ a.fallSuspected # b.fallSuspected
    \/ IF IsNone(a.tiltDeg) \/ IsNone(b.tiltDeg) THEN a.tiltDeg # b.tiltDeg
       ELSE Abs(Get(b.tiltDeg) - Get(a.tiltDeg)) >= 2

\* The call of this step was accepted and fused into a non-critical tick, and
\* the long interval has elapsed on the server's clock since the subject's
\* previous durable write.
EligibleQuietTick ==
    /\ Called
    /\ response'.status = 200
    /\ ~response'.deduped
    /\ LET r == response'.rid
       IN  /\ ~CriticalTick(Get(merged_state'[r]).metrics)
           /\ (Epoch + (clock' \div 1000)) - LAST_PERSIST[r]
                  >= ingest_persist_interval_seconds

\* C12 (as claimed): a non-critical tick whose interval has elapsed is written
\* if and only if its metrics differ significantly from the metrics of the
\* subject's last durable write.
C12_WrittenIffChangedSinceLastWrite ==
    [][EligibleQuietTick =>
          LET r    == response'.rid
              last == LastWrittenMetrics(r)
          IN  SnapshotWritten
                  <=> (IsNone(last)
                       \/ DiffersSignificantly(Get(last), Get(merged_state'[r]).metrics))]_vars

\* the raw snapshots of subject r, in the order they were written
SnapshotsOf(r) == SelectSeq(metric_samples, LAMBDA row : row.resident_id = r)

\* C13: the k-th durable snapshot of a subject keeps the full raw payload of
\* both streams if and only if k is a multiple of N (3); every other snapshot
\* has empty raw payloads and the compact merged metrics only.
C13_EveryNthFull ==
    \A r \in Residents :
        \A k \in 1..Len(SnapshotsOf(r)) :
            LET row == SnapshotsOf(r)[k]
            IN  IF k % ingest_store_full_payload_every_n_samples = 0
                THEN /\ ~IsNone(row.walker_json) \/ ~IsNone(row.vision_json)
                     /\ DOMAIN row.merged_json
                            = {"residentId", "ts", "walker", "vision", "metrics"}
                     /\ row.walker_json = row.merged_json.walker
                     /\ row.vision_json = row.merged_json.vision
                ELSE /\ IsNone(row.walker_json)
                     /\ IsNone(row.vision_json)
                     /\ DOMAIN row.merged_json = {"residentId", "ts", "metrics"}

\* three snapshots were written for r_1: two compact ones, then a full one
\* holding the device payload
C13_Witness ==
    /\ Len(SnapshotsOf("r_1")) = 3
    /\ IsNone(SnapshotsOf("r_1")[1].walker_json)
    /\ IsNone(SnapshotsOf("r_1")[2].walker_json)
    /\ ~IsNone(SnapshotsOf("r_1")[3].walker_json)
    /\ SAMPLE_COUNTER["r_1"] = 3

-----------------------------------------------------------------------------
(* Hub claims *)

\* This step answered an ingest call that published an event.
Published == Called /\ response'.status = 200 /\ ~response'.deduped

\* the sockets in S's per-subject set for subject r
ScopedTo(subs, r) == IF r \in DOMAIN subs THEN subs[r] ELSE {}

\* the socket's inbox grew in this step and now ends with the update for the
\* subject of the call
GotUpdate(ws) ==
    /\ Len(inbox'[ws]) > Len(inbox[ws])
    /\ inbox'[ws][Len(inbox'[ws])].type = "merged_update"
    /\ inbox'[ws][Len(inbox'[ws])].data = Get(merged_state'[response'.rid])

\* C14: in a publish, every subscriber whose send failed is gone from the
\* all-updates set, from every per-subject set and from the connection map;
\* the call is still answered 200 and its reading is stored; and every
\* subscriber that was in scope and did not fail received the event.
C14_FailedSendIsolated ==
    [][ Published =>
          /\ \A ws \in send_failed' :
                /\ ws \notin all_connections'
                /\ ws \notin DOMAIN connection_to_resident'
                /\ \A r \in DOMAIN resident_subscribers' :
                      ws \notin resident_subscribers'[r]
          /\ ~IsNone(merged_state'[response'.rid])
          /\ \A ws \in (all_connections
                          \cup ScopedTo(resident_subscribers, response'.rid))
                         \ send_failed' : GotUpdate(ws)
      ]_vars

\* a publish in which one subscriber failed and was removed while another,
\* still subscribed, holds the update as its latest message
C14_Witness ==
    /\ response.status = 200
    /\ \E dead \in send_failed, ws \in all_connections :
          /\ dead # ws
          /\ dead \notin all_connections
          /\ inbox[ws] # << >>
          /\ inbox[ws][Len(inbox[ws])].type = "merged_update"
          /\ inbox[ws][Len(inbox[ws])].data = Get(merged_state[response.rid])

\* C15 (as claimed): a socket subscribed on the per-subject scope for subject
\* S holds merged_update events for S only: no update in its inbox names
\* another subject (so the first one it holds names S).
C15_ScopedUpdatesOnly ==
    \A ws \in Sockets :
        HasResident(ws_resident[ws]) =>
            \A i \in 1..Len(inbox[ws]) :
                inbox[ws][i].type = "merged_update" =>
                    inbox[ws][i].data.residentId = Get(ws_resident[ws])

\* the states a snapshot for the given scope must hold, from the fused states
KnownStates(merged, scope) ==
    IF IsNone(scope)
    THEN {Get(merged[r]) : r \in {x \in Residents : ~IsNone(merged[x])}}
    ELSE {Get(merged[r]) : r \in {x \in {Get(scope)} : ~IsNone(merged[x])}}

\* C16: the first message a subscriber receives is a snapshot holding the
\* current fused state of every known subject, or of its own subject only
\* (nothing when that subject is unknown) on the per-subject scope; its first
\* message never changes afterwards, so no merged_update precedes the
\* snapshot, also when the subscription completes during a publish.
C16_SnapshotFirst ==
    [][ \A ws \in Sockets :
          /\ (inbox[ws] = << >> /\ inbox'[ws] # << >>) =>
                /\ inbox'[ws][1].type = "snapshot"
                /\ inbox'[ws][1].data = KnownStates(merged_state', ws_resident[ws])
          /\ (inbox[ws] # << >>) =>
                /\ inbox'[ws] # << >>
                /\ inbox'[ws][1].type = "snapshot"
                /\ inbox'[ws][1] = inbox[ws][1]
      ]_vars

\* both subjects are known and a subscriber on the per-subject scope of r_1
\* holds a snapshot of exactly r_1's state as its first message
C16_Witness ==
    /\ \A r \in Residents : ~IsNone(merged_state[r])
    /\ \E ws \in Sockets :
          /\ ws_resident[ws] = Some("r_1")
          /\ inbox[ws] # << >>
          /\ inbox[ws][1].type = "snapshot"
          /\ inbox[ws][1].data = {Get(merged_state["r_1"])}

-----------------------------------------------------------------------------
(* Workers: start() and stop() called in any order, also while an earlier
   stop() is still suspended, around one packet that raises three alerts *)

MaxWorkerPackets == 1

WorkersWalker ==
    /\ Packets < MaxWorkerPackets
    /\ \E p \in AlertPayloads : PostWalker("r_1", p, None, HubGapMs)

WorkersTake == \E t \in Tasks : WorkerTake(t)

WorkersFinish == \E t \in Tasks, speak_ok \in BOOLEAN : WorkerFinish(t, TRUE, speak_ok)

NextWorkers ==
    \/ WorkersWalker
    \/ Start
    \/ StopBegin
    \/ StopEnd
    \/ WorkersTake
    \/ WorkersFinish

SpecWorkers == Init /\ [][NextWorkers]_vars

IsPrefix(a, b) == Len(a) <= Len(b) /\ \A i \in 1..Len(a) : a[i] = b[i]

Processing == {t \in Tasks : task_state[t] = "processing"}

\* C17 (as claimed): the alerts taken from the queue are, in order, the first
\* of the alerts enqueued (FIFO, each at most once), and at no time are two
\* alerts being processed, after any start(), stop() and enqueue calls.
C17_SingleWorkerFifo ==
    /\ IsPrefix(dispatched, enqueued)
    /\ Cardinality(Processing) <= 1

-----------------------------------------------------------------------------
(* Serve: the application as main.py assembles it.  The lifespan sets up
   logging and the database; nothing calls start() or configure_broadcasts(),
   so the requests served are the ingest posts and the subscriptions. *)

MaxServePackets == 1

ServeGapMs == 50000

ServeWalker ==
    /\ Packets < MaxServePackets
    /\ \E p \in AlertPayloads : PostWalker("r_1", p, None, ServeGapMs)

ServeSubscribe == \E ws \in Sockets, resident_id \in HubScopes : WsAccept(ws, resident_id)

ServeRegister == \E ws \in Sockets : WsRegister(ws, TRUE)

ServeDisconnect == \E ws \in Sockets : WsDisconnect(ws)

NextServe == ServeWalker \/ ServeSubscribe \/ ServeRegister \/ ServeDisconnect

\* the event loop completes every handshake it has begun; when packets
\* arrive and when clients leave is up to the clients
SpecServe == Init /\ [][NextServe]_vars /\ WF_vars(ServeRegister)

IsNoticeFor(b, event) ==
    /\ b.type = "proactive_event"
    /\ b.residentId = event.resident_id
    /\ b.eventType = event.event_type
    /\ b.ts = event.ts

\* the n-th alert accepted onto the queue has been published
Noticed(n) ==
    /\ Len(enqueued) >= n
    /\ \E j \in 1..Len(broadcasts) : IsNoticeFor(broadcasts[j], enqueued[n])

\* a notification says spoken, or gives a reason
NoticeExplained(b) == IF b.spoken THEN b.error = "" ELSE b.error # ""

\* C18 (as claimed): every alert accepted onto the queue is followed by a
\* proactive_event notification for it, and every notification either says
\* spoken or carries a non-empty error reason.
C18_AlertLeadsToNotice ==
    /\ \A n \in 1..(3 * MaxAlertPackets) : (Len(enqueued) >= n) ~> Noticed(n)
    /\ [](\A j \in 1..Len(broadcasts) :
             broadcasts[j].type = "proactive_event" => NoticeExplained(broadcasts[j]))

-----------------------------------------------------------------------------
(* Timestamps: device and vision packets whose ts field is absent, in
   seconds or in milliseconds, at and beyond both ends of the accepted range *)

MaxTsPackets == 2

TsGapMs == 1000

\* the ts values sent at wall-clock second `now`
TsInputs(now) ==
    { None,
      TsSec(now), TsSec(now + OneDay), TsSec(now + OneDay + 1),
      TsSec(now - FiveYears), TsSec(now - FiveYears - 1),
      TsSec(0), TsSec(-5),
      <<now, 500>>, <<now + OneDay, 999>>, <<now + OneDay + 1, 0>>,
      <<now - FiveYears, 0>>, <<now - FiveYears - 1, 999>>,
      <<10000000, 0>>, <<10000000, 1>>, <<3000000, 0>> }

TsPayload == [fsrLeft |-> 20, fsrRight |-> 18, tiltDeg |-> <<10>>, steps |-> <<5>>]

TsWalker ==
    /\ Packets < MaxTsPackets
    /\ \E t \in TsInputs(Epoch + ((clock + TsGapMs) \div 1000)) :
           PostWalker("r_1", TsPayload, t, TsGapMs)

TsVision ==
    /\ Packets < MaxTsPackets
    /\ \E t \in TsInputs(Epoch + ((clock + TsGapMs) \div 1000)) :
           PostVision("r_1", [fallSuspected |-> FALSE, stepCount |-> None], t, TsGapMs)

NextTs == TsWalker \/ TsVision

SpecTs == Init /\ [][NextTs]_vars

\* the packet's ts value is above 10,000,000,000
AboveTenBillion(raw) == raw[1] > 10000000 \/ (raw[1] = 10000000 /\ raw[2] > 0)

\* the value in seconds after the division, when it is one the range test can
\* accept; TooLarge says it lies beyond every accepted second
TooLarge(raw) == (~AboveTenBillion(raw)) /\ raw[1] > SafeHi

InSeconds(raw) == IF AboveTenBillion(raw) THEN raw[1] ELSE raw[1] * 1000 + raw[2]

\* the ts the call recorded for its source
RecordedTs(stats, source) ==
    Get(IF source = "walker" THEN stats.last_walker_ts ELSE stats.last_vision_ts)

\* C19: a packet is never rejected for its timestamp, and the timestamp
\* recorded lies in [now - 5 years, now + 1 day]: an absent value becomes
\* now; a value above 10,000,000,000 is divided by 1000 first; a value then
\* inside the range is kept, and one outside it is replaced by now with the
\* rejection counter incremented by exactly one (and by nothing otherwise).
C19_TsNormalized ==
    [][ Called =>
          LET raw == request_ts'
              now == now_ts'
              ts  == RecordedTs(INGEST_STATS', response'.source)
              rej == INGEST_STATS'.ts_rejected - INGEST_STATS.ts_rejected
              nrm == INGEST_STATS'.ts_normalized - INGEST_STATS.ts_normalized
          IN  /\ response'.status = 200
              /\ now - FiveYears <= ts /\ ts <= now + OneDay
              /\ IsNone(raw) => (ts = now /\ rej = 0 /\ nrm = 0)
              /\ (~IsNone(raw)) =>
                    /\ nrm = (IF AboveTenBillion(raw) THEN 1 ELSE 0)
                    /\ IF (~TooLarge(raw))
                          /\ now - FiveYears <= InSeconds(raw)
                          /\ InSeconds(raw) <= now + OneDay
                       THEN ts = InSeconds(raw) /\ rej = 0
                       ELSE ts = now /\ rej = 1
              /\ (~response'.deduped) =>
                    Get((IF response'.source = "walker" THEN walker_state'
                         ELSE vision_state')[response'.rid]).ts = ts
      ]_vars

\* one packet stamped in milliseconds one second past the range was replaced
\* by now and counted once as rejected and once as normalized, and another
\* stamped exactly one day ahead was kept
C19_Witness ==
    /\ INGEST_STATS.ts_rejected = 1
    /\ INGEST_STATS.ts_normalized = 1
    /\ Packets = 2
    /\ request_ts = TsSec(now_ts + OneDay)
    /\ INGEST_STATS.last_walker_ts = Some(now_ts + OneDay)
    /\ response.status = 200

-----------------------------------------------------------------------------
(* Residents: device packets for the allowed subject, for another subject and
   with an empty identifier, while sockets subscribe *)

MaxResidentCalls == 2

ResidentGapMs == 1000

ResidentIds == {"r_1", "r_2", ""}

ResidentWalker ==
    /\ response.seq < MaxResidentCalls
    /\ \E rid \in ResidentIds, p \in HubPayloads : PostWalker(rid, p, None, ResidentGapMs)

ResidentSubscribe ==
    \E ws \in Sockets, resident_id \in {None, Some("r_2")} : WsAccept(ws, resident_id)

ResidentRegister == \E ws \in Sockets : WsRegister(ws, TRUE)

NextResident == ResidentWalker \/ ResidentSubscribe \/ ResidentRegister

SpecResident == Init /\ [][NextResident]_vars

\* C20: a packet is rejected (400, nothing stored, counted or sent) exactly
\* when its subject identifier is empty; any other packet is answered 200,
\* counted, stored as the subject's latest reading, fused and sent to every
\* subscriber in scope, whether or not its identifier is the allowed one, and
\* the mismatch counter grows by one exactly when it is not.
C20_MismatchAccepted ==
    [][ Called =>
          LET rid == response'.rid
          IN  /\ (rid = "") <=> (response'.status = 400)
              /\ (rid = "") =>
                    UNCHANGED <<walker_state, vision_state, merged_state, INGEST_STATS,
                                metric_samples, inbox, queue>>
              /\ (rid # "") =>
                    /\ response'.status = 200
                    /\ INGEST_STATS'.resident_rejected - INGEST_STATS.resident_rejected
                           = (IF rid # ingest_allowed_resident_id THEN 1 ELSE 0)
                    /\ INGEST_STATS'.walker_packets = INGEST_STATS.walker_packets + 1
                    /\ (~response'.deduped) =>
                          /\ ~IsNone(walker_state'[rid])
                          /\ Get(walker_state'[rid]).residentId = rid
                          /\ Get(walker_state'[rid]).ts = now_ts'
                          /\ ~IsNone(merged_state'[rid])
                          /\ Get(merged_state'[rid]).residentId = rid
                          /\ Get(merged_state'[rid]).walker = walker_state'[rid]
                          /\ \A ws \in (all_connections
                                          \cup ScopedTo(resident_subscribers, rid))
                                         \ send_failed' : GotUpdate(ws)
      ]_vars

\* a packet for r_2, which is not the allowed subject, was answered 200,
\* counted as a mismatch, fused, and sent to a subscriber
C20_Witness ==
    /\ response.rid = "r_2"
    /\ response.status = 200
    /\ ingest_allowed_resident_id = "r_1"
    /\ INGEST_STATS.resident_rejected = 1
    /\ ~IsNone(merged_state["r_2"])
    /\ \E ws \in all_connections :
          /\ inbox[ws] # << >>
          /\ inbox[ws][Len(inbox[ws])].type = "merged_update"
          /\ inbox[ws][Len(inbox[ws])].data = Get(merged_state["r_2"])

-----------------------------------------------------------------------------
(* Faults: device packets, some raising durable events, whose commit or
   retention sweep may raise, while a socket subscribes *)

MaxFaultPackets == 2

\* steady walking; a tilt that raises heavy-lean and near-fall; a fall
FaultPayloads ==
    { [fsrLeft |-> 20, fsrRight |-> 18, tiltDeg |-> <<10>>, steps |-> <<5>>],
      [fsrLeft |-> 20, fsrRight |-> 18, tiltDeg |-> <<55>>, steps |-> <<6>>],
      [fsrLeft |-> 20, fsrRight |-> 18, tiltDeg |-> <<65>>, steps |-> <<7>>] }

\* milliseconds between two packets: inside and outside the event cooldowns
FaultGaps == {2000, 70000}

FaultsWalker ==
    /\ Packets < MaxFaultPackets
    /\ \E p \in FaultPayloads, dt \in FaultGaps : PostWalker("r_1", p, None, dt)

FaultsWalkerRaising ==
    /\ Packets < MaxFaultPackets
    /\ \E p \in FaultPayloads, dt \in FaultGaps, failure \in Failures :
           PostWalkerRaising("r_1", p, None, dt, failure)

FaultsSubscribe == WsAccept("ws_1", None)

FaultsRegister == WsRegister("ws_1", TRUE)

NextFaults == FaultsWalker \/ FaultsWalkerRaising \/ FaultsSubscribe \/ FaultsRegister

SpecFaults == Init /\ [][NextFaults]_vars

\* C21 (as claimed): every call with a non-empty subject identifier is
\* answered as accepted, also when the commit or the retention sweep of its
\* tick raises; its fused state is stored and every subscriber holds the
\* update.
C21_FailureStillAccepted ==
    [][ (Called /\ response'.rid # "") =>
          /\ response'.status = 200
          /\ (~response'.deduped) =>
                /\ ~IsNone(merged_state'[response'.rid])
                /\ \A ws \in all_connections \ send_failed' : GotUpdate(ws)
      ]_vars

-----------------------------------------------------------------------------
(* Suppression claims, on the ingest specification *)

\* This step answered an accepted, non-duplicate packet: a fused tick.
Ticked == Called /\ response'.status = 200 /\ ~response'.deduped

\* the proactive candidates of the tick this step made
TickCandidates ==
    LET merged == Get(merged_state'[response'.rid])
    IN  collect_events(response'.rid, merged, merged.ts)

\* this step put the event on the queue
Enqueued(event) ==
    \E j \in (Len(enqueued) + 1)..Len(enqueued') : enqueued'[j] = event

\* C22: a proactive candidate whose signature equals the last emitted
\* signature of its (subject, event type) is rejected whatever its timestamp;
\* a candidate with another signature whose timestamp is at least one
\* cooldown after the last emission is accepted, and becomes the last
\* emission.
C22_SignatureSuppression ==
    [][ Ticked =>
          \A i \in 1..Len(TickCandidates) :
             LET event == TickCandidates[i]
                 key   == <<event.resident_id, event.event_type>>
                 sig   == Some(event_signature(event))
             IN  /\ (last_event_signature[key] = sig) => ~Enqueued(event)
                 /\ (last_event_signature[key] # sig
                        /\ event.ts - last_event_at[key] >= proactive_cooldown) =>
                       /\ Enqueued(event)
                       /\ last_event_at'[key] = event.ts
                       /\ last_event_signature'[key] = sig
      ]_vars

\* the latest tick of r_1 came a cooldown or more after the last high_load
\* alert with an unchanged signature, and was not queued
C22_Witness ==
    /\ ~IsNone(merged_state["r_1"])
    /\ LET merged == Get(merged_state["r_1"])
           key    == <<"r_1", "high_load">>
       IN  /\ HighLoad(merged.metrics)
           /\ merged.ts - last_event_at[key] >= proactive_cooldown
           /\ last_event_signature[key]
                 = Some(event_signature(
                       ProactiveEvent("r_1", "high_load", "medium", merged.metrics, merged.ts)))
           /\ Cardinality(EventsOf(enqueued, "r_1", "high_load")) = 1
           /\ INGEST_STATS.walker_packets - INGEST_STATS.walker_deduped >= 2

\* the sample count of the rollup row with key k (0 when there is no row)
SampleCount(table, k) == IF k \in DOMAIN table THEN table[k].sample_count ELSE 0

\* C23 (as claimed): every fused tick applies one rollup sample to the hourly
\* and the daily bucket of its timestamp, critical or not and however soon
\* after the previous tick.
C23_EveryTickRolledUp ==
    [][ Ticked =>
          LET rid == response'.rid
              ts  == Get(merged_state'[rid]).ts
              hk  == <<rid, bucket_start_hour(ts)>>
              dk  == <<rid, date_from_ts(ts)>>
          IN  /\ SampleCount(hourly_rollups', hk) = SampleCount(hourly_rollups, hk) + 1
              /\ SampleCount(daily_rollups', dk) = SampleCount(daily_rollups, dk) + 1
      ]_vars

-----------------------------------------------------------------------------
(* Retention: device packets at several gaps, some of whose sweep or commit
   raises, and stretches of time in which no request arrives, under each
   configured run interval *)

MaxRetentionPackets == 2

\* the clock value (ms) the model lets idle time reach
RetentionHorizonMs == 4000000

\* the length (ms) of one stretch without requests: above the default interval
RetentionIdleMs == 3700000

\* settings.retention_run_interval_seconds: unset, below the floor, the default
RetentionSettings == {0, 30, 3600}

\* milliseconds between two packets: below the floor and above it
RetentionGaps == {40000, 70000}

InitRetention ==
    /\ InitProgram
    /\ retention_run_interval_seconds \in RetentionSettings
    /\ proactive_monitor_enabled = TRUE

\* dt milliseconds pass in which no request arrives: lifespan() has started no
\* task, so no code of the application runs and only the wall clock moves
Idle(dt) ==
    /\ clock' = clock + dt
    /\ UNCHANGED <<walker_state, vision_state, merged_state, LAST_PERSIST,
                   LAST_ANALYTICS_PERSIST, SAMPLE_COUNTER, LAST_RETENTION_RUN_TS,
                   LAST_PACKET_SIGNATURE, INGEST_STATS, last_event_ts, last_steps,
                   last_step_change_ts, resident_rows, metric_samples,
                   exercise_samples, ingest_events, hourly_rollups, daily_rollups,
                   queue, running, last_event_at, last_event_signature,
                   last_speak_by_resident, resident_to_session,
                   broadcast_configured, broadcasts, enqueued, spoken_log, avatar_channel,
                   last_write_ms, all_connections, resident_subscribers,
                   connection_to_resident, inbox, ws_phase, ws_resident,
                   send_failed, worker_task, task_state, task_event, stop_pending,
                   dispatched, request_ts, response,
                   retention_run_interval_seconds, proactive_monitor_enabled, ingest_task,
                LAST_RETENTION_REPORT>>

RetentionWalker ==
    /\ Packets < MaxRetentionPackets
    /\ \E p \in FaultPayloads, dt \in RetentionGaps : PostWalker("r_1", p, None, dt)

RetentionWalkerRaising ==
    /\ Packets < MaxRetentionPackets
    /\ \E p \in FaultPayloads, dt \in RetentionGaps, failure \in Failures :
           PostWalkerRaising("r_1", p, None, dt, failure)

RetentionIdle ==
    /\ clock + RetentionIdleMs <= RetentionHorizonMs
    /\ Idle(RetentionIdleMs)

NextRetention == RetentionWalker \/ RetentionWalkerRaising \/ RetentionIdle

\* time passes whatever the clients do; packets arrive only if a device sends
SpecRetention == InitRetention /\ [][NextRetention]_vars /\ WF_vars(RetentionIdle)

\* the run interval has elapsed since the last sweep started
SweepDue == retention_enabled /\ now_ts - LAST_RETENTION_RUN_TS >= retention_interval

\* C24 (as claimed): whenever the run interval has elapsed since the last
\* sweep, a sweep eventually runs, whether or not a packet arrives.
C24_SweepOnTimer == SweepDue ~> ~SweepDue

\* this step started a sweep
SweepStarted == LAST_RETENTION_RUN_TS' # LAST_RETENTION_RUN_TS

-----------------------------------------------------------------------------
(* Rate-window claims, on the alerts specification *)

\* the notices of dispatched alerts this step broadcast whose speech was
\* synthesized: the ones spoken and the ones the avatar channel refused
SynthesizedNotices ==
    { i \in (Len(broadcasts) + 1)..Len(broadcasts') :
        /\ broadcasts'[i].type = "proactive_event"
        /\ broadcasts'[i].spoken \/ broadcasts'[i].error = "avatar speak failed" }

\* C26 (as claimed): a dispatched alert whose speech was synthesized has its
\* timestamp in the subject's rate window after the dispatch, whether the
\* avatar channel accepted the audio or not.
C26_SynthesisRecorded ==
    [][ \A i \in SynthesizedNotices :
          \E j \in 1..Len(last_speak_by_resident'[broadcasts'[i].residentId]) :
             last_speak_by_resident'[broadcasts'[i].residentId][j] = now_ts'
      ]_vars

-----------------------------------------------------------------------------
(* Sessions: the alerts specification, with avatar sessions that close *)

\* the avatar sessions that close: the one r_1 is mapped to, another, none
ClosedSessions == {"s_1", "s_2", ""}

SessionClosed == running /\ \E sid \in ClosedSessions : ClearSession(sid)

NextSessions ==
    \/ ConfigureBroadcasts
    \/ AlertStart
    \/ AlertWalker
    \/ AlertSession
    \/ AlertWorker
    \/ SessionClosed

SpecSessions == Init /\ [][NextSessions]_vars

\* this step closed the alert channel of subject r
ChannelClosed(r) == ~IsNone(resident_to_session[r]) /\ IsNone(resident_to_session'[r])

\* C27 (as claimed): closing a subject's alert channel leaves the subject
\* with no mapping and an empty rate window.
C27_CloseClearsRateWindow ==
    [][ \A r \in Residents :
          ChannelClosed(r) => last_speak_by_resident'[r] = << >>
      ]_vars

-----------------------------------------------------------------------------
(* Durable-event claims, on the faults specification *)

\* the rounded-snapshot signature of an event of type t raised by the tick
DurableSignature(t, merged) ==
    event_signature(ProactiveEvent(merged.residentId, t, "", merged.metrics, merged.ts))

\* the rows of type t of subject rid with timestamp ts in the table
EventRows(table, rid, t, ts) ==
    { i \in 1..Len(table) :
        table[i].resident_id = rid /\ table[i].event_type = t /\ table[i].ts = ts }

\* C28 (as claimed): when the previous tick of the subject emitted a durable
\* event of some type, a tick with the same rounded-snapshot signature emits
\* no event of that type, also after the cooldown of the type.
C28_DurableSignatureSuppression ==
    [][ Ticked =>
          LET rid == response'.rid
          IN  \A t \in DurableEventTypes :
                 ( /\ ~IsNone(merged_state[rid])
                   /\ EventRows(ingest_events, rid, t, Get(merged_state[rid]).ts) # {}
                   /\ DurableSignature(t, Get(merged_state[rid]))
                         = DurableSignature(t, Get(merged_state'[rid])) )
                 => EventRows(ingest_events', rid, t, Get(merged_state'[rid]).ts)
                       \subseteq EventRows(ingest_events, rid, t, Get(merged_state'[rid]).ts)
      ]_vars

\* the cooldown gate accepted an event of key k = <<subject, type>> in this step
GateAccepted(k) == last_event_ts'[k] # last_event_ts[k]

\* C29 (as claimed): whenever the durable cooldown gate accepts an event, the
\* safety-event table holds a row for it after the call, whether or not the
\* commit of the tick succeeded.
C29_AcceptedEventDurable ==
    [][ \A k \in Residents \X DurableEventTypes :
          GateAccepted(k) =>
             EventRows(ingest_events', k[1], k[2], last_event_ts'[k]) # {}
      ]_vars

-----------------------------------------------------------------------------
(* Rollup counters, on the retention specification *)

\* the accepted events of type t of subject rid whose tick landed in the
\* hourly bucket starting at h, and in the daily bucket d
HourlyEvents(rid, t, h) ==
    { i \in 1..Len(ingest_events) :
        /\ ingest_events[i].resident_id = rid
        /\ ingest_events[i].event_type = t
        /\ bucket_start_hour(ingest_events[i].ts) = h }

DailyEvents(rid, t, d) ==
    { i \in 1..Len(ingest_events) :
        /\ ingest_events[i].resident_id = rid
        /\ ingest_events[i].event_type = t
        /\ date_from_ts(ingest_events[i].ts) = d }

\* the buckets some accepted event landed in
EventHours == { <<ingest_events[i].resident_id, bucket_start_hour(ingest_events[i].ts)>> : i \in 1..Len(ingest_events) }

EventDays == { <<ingest_events[i].resident_id, date_from_ts(ingest_events[i].ts)>> : i \in 1..Len(ingest_events) }

\* C30: in every hourly and daily bucket of every subject, heavy_lean_count is
\* the number of accepted heavy-lean events and inactivity_count the number of
\* accepted inactivity events whose tick landed in the bucket; every accepted
\* event has its bucket.
C30_CountersMatchEvents ==
    /\ EventHours \subseteq DOMAIN hourly_rollups
    /\ EventDays \subseteq DOMAIN daily_rollups
    /\ \A k \in DOMAIN hourly_rollups :
          /\ hourly_rollups[k].heavy_lean_count
                = Cardinality(HourlyEvents(k[1], "heavy-lean", k[2]))
          /\ hourly_rollups[k].inactivity_count
                = Cardinality(HourlyEvents(k[1], "inactivity", k[2]))
    /\ \A k \in DOMAIN daily_rollups :
          /\ daily_rollups[k].heavy_lean_count
                = Cardinality(DailyEvents(k[1], "heavy-lean", k[2]))
          /\ daily_rollups[k].inactivity_count
                = Cardinality(DailyEvents(k[1], "inactivity", k[2]))

\* two ticks with a tilt of 55 degrees landed in one hourly bucket 40 seconds
\* apart: the first raised a heavy-lean event, the second was suppressed by the
\* cooldown, and the bucket counts one
C30_Witness ==
    /\ ~IsNone(merged_state["r_1"])
    /\ Get(merged_state["r_1"]).metrics.tiltDeg = Some(55)
    /\ LET ts == Get(merged_state["r_1"]).ts
           hk == <<"r_1", bucket_start_hour(ts)>>
       IN  /\ hk \in DOMAIN hourly_rollups
           /\ hourly_rollups[hk].sample_count = 2
           /\ hourly_rollups[hk].heavy_lean_count = 1
           /\ ts - last_event_ts[<<"r_1", "heavy-lean">>] = 40
           /\ Cardinality(HourlyEvents("r_1", "heavy-lean", hk[2])) = 1

-----------------------------------------------------------------------------
(* Critical ticks, on the ingest specification *)

\* the tick of this step is critical: a suspected fall or a tilt of 50 or more
TickedCritical ==
    /\ Ticked
    /\ LET m == Get(merged_state'[response'.rid]).metrics
       IN  m.fallSuspected \/ (~IsNone(m.tiltDeg) /\ Get(m.tiltDeg) >= 50)

\* the event rows of subject rid and timestamp ts this step added whose type
\* is in the set types
NewEvents(rid, ts, types) ==
    { i \in (Len(ingest_events) + 1)..Len(ingest_events') :
        /\ ingest_events'[i].resident_id = rid
        /\ ingest_events'[i].ts = ts
        /\ ingest_events'[i].event_type \in types }

\* C31: every critical tick adds one sample to the hourly and the daily rollup
\* row of its timestamp, however soon after the previous tick; the first tick
\* of a subject, when critical, creates both rows and records at least one of
\* the events fall, near-fall and heavy-lean.
C31_CriticalTickEvaluated ==
    [][ TickedCritical =>
          LET rid == response'.rid
              ts  == Get(merged_state'[rid]).ts
              hk  == <<rid, bucket_start_hour(ts)>>
              dk  == <<rid, date_from_ts(ts)>>
          IN  /\ SampleCount(hourly_rollups', hk) = SampleCount(hourly_rollups, hk) + 1
              /\ SampleCount(daily_rollups', dk) = SampleCount(daily_rollups, dk) + 1
              /\ IsNone(merged_state[rid]) =>
                    NewEvents(rid, ts, {"fall", "near-fall", "heavy-lean"}) # {}
      ]_vars

\* two critical ticks of r_1 landed in the same wall-clock second, and the
\* hourly bucket counts both
C31_Witness ==
    /\ ~IsNone(merged_state["r_1"])
    /\ LET m  == Get(merged_state["r_1"])
           hk == <<"r_1", bucket_start_hour(m.ts)>>
       IN  /\ m.metrics.tiltDeg = Some(61)
           /\ LAST_ANALYTICS_PERSIST["r_1"] = now_ts
           /\ clock = 200
           /\ hk \in DOMAIN hourly_rollups
           /\ hourly_rollups[hk].sample_count = 2
           /\ hourly_rollups[hk].fall_count = 2

\* the raw snapshot rows of subject rid
SamplesOf(table, rid) == { i \in 1..Len(table) : table[i].resident_id = rid }

\* C32: the first tick of a subject adds a raw snapshot row for it, whatever
\* the payload and the packet's timestamp.
C32_FirstTickWritten ==
    [][ (Ticked /\ IsNone(merged_state[response'.rid])) =>
          /\ Cardinality(SamplesOf(metric_samples', response'.rid)) = 1
          /\ INGEST_STATS'.persist_writes = INGEST_STATS.persist_writes + 1
      ]_vars

\* the only tick of r_1 so far was not critical and carried a timestamp one
\* day ahead; its snapshot row is in the table
C32_Witness ==
    /\ INGEST_STATS.walker_packets = 1
    /\ INGEST_STATS.vision_packets = 0
    /\ ~IsNone(request_ts)
    /\ ~IsNone(merged_state["r_1"])
    /\ ~Critical(Get(merged_state["r_1"]).metrics)
    /\ Cardinality(SamplesOf(metric_samples, "r_1")) = 1
    /\ INGEST_STATS.persist_writes = 1

\* C33: every step leaves each subject with as many normalized metric rows as
\* raw snapshot rows, and a durable write adds exactly one row of the subject
\* to each table; a call that counts no write adds none.
C33_SameCadence ==
    [][ \A r \in Residents :
          LET raw  == Cardinality(SamplesOf(metric_samples', r))
                         - Cardinality(SamplesOf(metric_samples, r))
              norm == Cardinality(SamplesOf(exercise_samples', r))
                         - Cardinality(SamplesOf(exercise_samples, r))
              wrote == /\ INGEST_STATS'.persist_writes = INGEST_STATS.persist_writes + 1
                       /\ response'.rid = r
          IN  /\ Cardinality(SamplesOf(metric_samples', r))
                    = Cardinality(SamplesOf(exercise_samples', r))
              /\ raw = norm
              /\ raw = IF wrote THEN 1 ELSE 0
      ]_vars

\* the first tick of r_1 was written to both tables; the second reached its
\* write and its commit raised, leaving one row in each
C33_Witness ==
    /\ INGEST_STATS.walker_packets = 2
    /\ response.status = 500
    /\ SAMPLE_COUNTER["r_1"] = 2
    /\ INGEST_STATS.persist_writes = 1
    /\ Cardinality(SamplesOf(metric_samples, "r_1")) = 1
    /\ Cardinality(SamplesOf(exercise_samples, "r_1")) = 1

-----------------------------------------------------------------------------
(* Speech: the alerts specification with a speech synthesis that may fail *)

MaxSpeakPackets == 2

SpeakWalker ==
    /\ running
    /\ Packets < MaxSpeakPackets
    /\ \E p \in AlertPayloads : PostWalker("r_1", p, None, 50000)

\* the synthesis answers or fails; the avatar channel accepts the audio or not
SpeakWorker == \E tts_ok \in BOOLEAN, speak_ok \in BOOLEAN : WorkerStep(tts_ok, speak_ok)

NextSpeak ==
    \/ ConfigureBroadcasts
    \/ AlertStart
    \/ SpeakWalker
    \/ AlertSession
    \/ SpeakWorker

SpecSpeak == Init /\ [][NextSpeak]_vars

\* this step dispatched an alert
Dispatched == Len(dispatched') = Len(dispatched) + 1

\* the operations this step asked of the avatar channel, in order
ChannelOps ==
    [i \in 1..(Len(avatar_channel') - Len(avatar_channel)) |->
        avatar_channel'[Len(avatar_channel) + i].op]

\* C34: the dispatch of an alert whose speech was synthesized asks the channel
\* for an interrupt and then the audio when the alert is a fall, and for the
\* audio alone otherwise; a dispatch that was rate limited, whose synthesis
\* failed or whose subject has no channel asks nothing of it.
C34_InterruptOnlyForFall ==
    [][ Dispatched =>
          LET event  == dispatched'[Len(dispatched')]
              notice == broadcasts'[Len(broadcasts')]
              synthesized == notice.spoken \/ notice.error = "avatar speak failed"
          IN  /\ notice.type = "proactive_event"
              /\ notice.eventType = event.event_type
              /\ ChannelOps = IF ~synthesized THEN << >>
                              ELSE IF event.event_type = "fall"
                              THEN <<"interrupt", "audio">>
                              ELSE <<"audio">>
      ]_vars

\* the channel of r_1 was interrupted once, for a fall, and then streamed more
\* audio without an interrupt; a later alert was rate limited and another's
\* synthesis failed
C34_Witness ==
    /\ Len(avatar_channel) >= 3
    /\ avatar_channel[1].op = "interrupt"
    /\ avatar_channel[2].op = "audio"
    /\ avatar_channel[3].op = "audio"
    /\ \E i \in 1..Len(broadcasts) :
          broadcasts[i].type = "proactive_event" /\ broadcasts[i].error = "rate_limited"
    /\ \E i \in 1..Len(broadcasts) :
          broadcasts[i].type = "proactive_event" /\ broadcasts[i].error = "tts failed"

-----------------------------------------------------------------------------
(* Inactivity: device packets whose step count rises, stays, falls or is
   absent, seconds or minutes apart *)

MaxInactivityPackets == 3

InactivityPayloads ==
    { [fsrLeft |-> 20, fsrRight |-> 18, tiltDeg |-> <<10>>, steps |-> st] :
         st \in {<<4>>, <<5>>, None} }

\* milliseconds between two packets: below and above the inactivity window
InactivityGaps == {40000, 400000}

InactivityWalker ==
    /\ Packets < MaxInactivityPackets
    /\ \E p \in InactivityPayloads, dt \in InactivityGaps : PostWalker("r_1", p, None, dt)

InactivityVision ==
    /\ Packets < MaxInactivityPackets
    /\ \E dt \in InactivityGaps :
          PostVision("r_1", [fallSuspected |-> FALSE, stepCount |-> <<6>>], None, dt)

NextInactivity == InactivityWalker \/ InactivityVision

SpecInactivity == Init /\ [][NextInactivity]_vars

\* this step's tick was evaluated by the durable path
Evaluated ==
    /\ Ticked
    /\ LET ts == Get(merged_state'[response'.rid]).ts
           hk == <<response'.rid, bucket_start_hour(ts)>>
       IN  SampleCount(hourly_rollups', hk) = SampleCount(hourly_rollups, hk) + 1

\* C35: an evaluated tick records an inactivity event, of severity medium,
\* exactly when the subject had reported a step count before, the tick's step
\* count is no increase over it, 300 seconds or more of tick time have passed
\* since the last increase and since the subject's previous inactivity event;
\* a tick whose step count is equal or lower leaves the timer where it was.
C35_InactivityExactly ==
    [][ Evaluated =>
          LET rid   == response'.rid
              m     == Get(merged_state'[rid])
              ts    == m.ts
              steps == m.metrics.steps
              prev  == last_steps[rid]
              rose  == ~IsNone(steps) /\ (IsNone(prev) \/ Get(steps) > Get(prev))
              expected ==
                  /\ ~IsNone(prev)
                  /\ ~rose
                  /\ ts - Get(last_step_change_ts[rid]) >= 300
                  /\ ts - last_event_ts[<<rid, "inactivity">>] >= 300
              rows  == NewEvents(rid, ts, {"inactivity"})
          IN  /\ (rows # {}) <=> expected
              /\ \A i \in rows : ingest_events'[i].severity = "medium"
              /\ Cardinality(rows) <= 1
              /\ (~IsNone(prev) /\ ~rose) =>
                    last_step_change_ts'[rid] = last_step_change_ts[rid]
      ]_vars

\* r_1 reported 5 steps, then 4 steps 400 seconds later (an inactivity event),
\* then 4 steps again 40 seconds later: the timer still runs from the first
\* tick and the cooldown suppressed a second event
C35_Witness ==
    /\ INGEST_STATS.walker_packets = 3
    /\ last_steps["r_1"] = Some(4)
    /\ Cardinality(EventRows(ingest_events, "r_1", "inactivity", now_ts - 40)) = 1
    /\ Len(ingest_events) = 1
    /\ last_step_change_ts["r_1"] = Some(now_ts - 440)

-----------------------------------------------------------------------------
(* The proactive detector with the feature switched on or off: device packets
   at, just under and over the weight and balance thresholds *)

MaxProactivePackets == 2

ProactivePayloads ==
    { [fsrLeft |-> f[1], fsrRight |-> f[2], tiltDeg |-> <<t>>, steps |-> <<5>>] :
         f \in {<<10, 10>>, <<10, 9>>, <<13, 7>>, <<2, 12>>, <<14, 6>>}, t \in {10, 65} }

ProactiveGaps == {2000, 40000}

InitProactive ==
    /\ InitProgram
    /\ retention_run_interval_seconds = 3600
    /\ proactive_monitor_enabled \in BOOLEAN

ProactiveWalker ==
    /\ Packets < MaxProactivePackets
    /\ \E p \in ProactivePayloads, dt \in ProactiveGaps : PostWalker("r_1", p, None, dt)

ProactiveVision ==
    /\ Packets < MaxProactivePackets
    /\ \E fall \in BOOLEAN, dt \in ProactiveGaps :
          PostVision("r_1", [fallSuspected |-> fall, stepCount |-> <<6>>], None, dt)

NextProactive == ProactiveWalker \/ ProactiveVision

SpecProactive == InitProactive /\ [][NextProactive]_vars

\* the condition the detector puts on a fused metrics snapshot for a type
DetectorCondition(t, m) ==
    CASE t = "fall"      -> m.fallSuspected
      [] t = "high_load" -> m.reliance >= proactive_weight_threshold_kg * Micro
      [] OTHER           -> 100 * Abs(m.balance.num)
                               >= proactive_balance_threshold_centi * Abs(m.balance.den)

\* the types of the alerts this step put on the queue
EnqueuedTypes ==
    { enqueued'[j].event_type : j \in (Len(enqueued) + 1)..Len(enqueued') }

\* C36: with the feature on, a tick enqueues an alert of a type only when the
\* fused metrics meet the condition of the type (fall: fallSuspected,
\* high_load: reliance at or over the weight threshold, imbalance: |balance| at
\* or over the balance threshold), and does enqueue it when they do and no
\* alert of that type was emitted for the subject before; with the feature off
\* a tick enqueues nothing and leaves the cooldown and signature state alone.
C36_CandidatesByThreshold ==
    [][ Ticked =>
          LET rid == response'.rid
              m   == Get(merged_state'[rid]).metrics
          IN  IF proactive_monitor_enabled
              THEN \A t \in {"fall", "high_load", "imbalance"} :
                      /\ (t \in EnqueuedTypes) => DetectorCondition(t, m)
                      /\ (DetectorCondition(t, m)
                            /\ IsNone(last_event_signature[<<rid, t>>]))
                            => t \in EnqueuedTypes
              ELSE UNCHANGED <<queue, enqueued, last_event_at, last_event_signature>>
      ]_vars

\* with the feature on: left 2, right 12 is an imbalance to the right without
\* high load, and no fall
C36_Witness ==
    /\ proactive_monitor_enabled
    /\ ~IsNone(merged_state["r_1"])
    /\ Get(merged_state["r_1"]).metrics.balance.num < 0
    /\ ~Get(merged_state["r_1"]).metrics.fallSuspected
    /\ Len(enqueued) = 1
    /\ enqueued[1].event_type = "imbalance"

\* with the feature off: a fall with high load went by and nothing was queued
C36_WitnessDisabled ==
    /\ ~proactive_monitor_enabled
    /\ ~IsNone(merged_state["r_1"])
    /\ Get(merged_state["r_1"]).metrics.fallSuspected
    /\ Get(merged_state["r_1"]).metrics.reliance >= proactive_weight_threshold_kg * Micro
    /\ enqueued = << >>
    /\ \A k \in DOMAIN last_event_signature : IsNone(last_event_signature[k])

-----------------------------------------------------------------------------
(* Retries: runs of equal packets, each inside the dedupe window of its
   predecessor or just outside it, with and without a ts field *)

MaxDedupePackets == 4

DedupePayloads ==
    { [fsrLeft |-> 20, fsrRight |-> 18, tiltDeg |-> <<10>>, steps |-> st] :
         st \in {<<5>>, <<6>>} }

\* milliseconds between two packets: inside the window of 250 and outside it
DedupeGaps == {200, 300}

DedupeWalker ==
    /\ Packets < MaxDedupePackets
    /\ \E p \in DedupePayloads, dt \in DedupeGaps, stamped \in BOOLEAN :
          PostWalker("r_1", p, IF stamped THEN TsSec(Epoch + 5) ELSE None, dt)

DedupeVision ==
    /\ Packets < MaxDedupePackets
    /\ \E fall \in BOOLEAN, dt \in DedupeGaps :
          PostVision("r_1", [fallSuspected |-> fall, stepCount |-> None], None, dt)

NextDedupe == DedupeWalker \/ DedupeVision

SpecDedupe == Init /\ [][NextDedupe]_vars

\* C37: after every packet that passed the subject check, accepted or
\* suppressed, the dedupe entry of its (stream, subject) holds the packet's
\* signature and arrival time; the packet is classified duplicate exactly when
\* its signature equals that of the preceding packet of the key and it arrived
\* no more than the dedupe window after it, and a duplicate changes neither
\* the latest readings nor the fused state.
C37_EntryFollowsEveryPacket ==
    [][ (Called /\ response'.status # 400) =>
          LET key  == <<response'.source, response'.rid>>
              prev == LAST_PACKET_SIGNATURE[key]
          IN  /\ LAST_PACKET_SIGNATURE'[key] = [sig |-> response'.sig, ms |-> clock']
              /\ response'.deduped <=>
                    (prev.sig = response'.sig
                       /\ clock' - prev.ms <= ingest_dedupe_window_ms)
              /\ response'.deduped =>
                    UNCHANGED <<walker_state, vision_state, merged_state>>
      ]_vars

\* four equal device packets 200 ms apart: the last three were suppressed, the
\* last one 600 ms after the only accepted one
C37_Witness ==
    /\ INGEST_STATS.walker_packets = 4
    /\ INGEST_STATS.vision_packets = 0
    /\ INGEST_STATS.walker_deduped = 3
    /\ response.deduped
    /\ ~IsNone(last_write_ms["r_1"])
    /\ clock - Get(last_write_ms["r_1"]) > 2 * ingest_dedupe_window_ms

-----------------------------------------------------------------------------
(* Concurrent requests: an ingest task is suspended in a send of one of its
   broadcasts while another request is handled.  A send hands the event to
   the socket and may then suspend the task (the server writes the frame and
   waits for the transport to drain); nothing else in the handler suspends. *)

\* `for ws in list(...)`: T.targets are the sockets of the copied list the
\* task has still to send to in the broadcast T.pc; broadcast_resident copies
\* its list when broadcast_all has returned
NextBroadcast(H, T) ==
    IF T.pc = "all" /\ T.targets = {}
    THEN [T EXCEPT !.pc = "resident", !.targets = SubscribersOf(H, T.rid)]
    ELSE T

\* the task t returns from _update_and_push with the outcome f and the
\* handler answers
TaskReturn(t, f, T, nowMs) ==
    /\ SetIngest(f.state)
    /\ response' = Answer(response.seq + 1, T.source, T.rid, Get(T.sig),
                          IF f.raised THEN 500 ELSE 200, FALSE)
    /\ last_write_ms' = WriteClock(f.state, T.rid, nowMs)
    /\ ingest_task' = [ingest_task EXCEPT ![t] = IdleTask]
    /\ UNCHANGED <<all_connections, resident_subscribers, connection_to_resident,
                   inbox, send_failed>>

\* the task t sends its event to the socket ws and is suspended there
TaskSend(t, R, T, ws, ok) ==
    /\ SetHub(safe_send(Hub, ws, MergedUpdateEvent(Get(T.merged)), ok))
    /\ send_failed' = IF ok THEN {} ELSE {ws}
    /\ ingest_task' = [ingest_task EXCEPT ![t] = [T EXCEPT !.targets = @ \ {ws}]]
    /\ SetIngest(R)
    /\ UNCHANGED <<response, last_write_ms>>

\* The task t, with locals T, runs on from the ingest state R at clock value
\* nowMs until it is suspended in its next send or returns: lines 249-301 of
\* _update_and_push.  A send to a socket that is no longer connected raises.
TaskRun(t, R, T, nowMs) ==
    IF T.targets # {}
    THEN \E ws \in T.targets, ok \in BOOLEAN :
            /\ ok => ws \in all_connections
            /\ TaskSend(t, R, T, ws, ok)
    ELSE TaskReturn(t, after_commit(update_and_push_tail(R, T.rid, Epoch + (nowMs \div 1000),
                                                         T.previous_merged, Get(T.merged)),
                                    R, Epoch + (nowMs \div 1000), "none"),
                    T, nowMs)

\* the handler after its boundary ended as b: an answer at once, or
\* _update_and_push up to its first suspension
TaskBegun(t, b, rid, nowMs) ==
    IF ~b.proceed
    THEN /\ SetIngest(b.state)
         /\ response' = b.response
         /\ send_failed' = {}
         /\ UNCHANGED <<all_connections, resident_subscribers, connection_to_resident,
                        inbox, last_write_ms, ingest_task>>
    ELSE TaskRun(t,
                 update_and_push_head(b.state, rid,
                                      Fused(b.state, rid, Epoch + (nowMs \div 1000))),
                 NextBroadcast(Hub,
                    [pc |-> "all", rid |-> rid, source |-> b.response.source,
                     sig |-> b.response.sig,
                     previous_merged |-> b.state.merged_state[rid],
                     merged |-> Some(Fused(b.state, rid, Epoch + (nowMs \div 1000))),
                     targets |-> all_connections]),
                 nowMs)

\* a request arrives dt milliseconds after the previous one and is handled
\* by the task t up to its first suspension
TaskBegin(t, source, rid, payload, rawts, dt) ==
    /\ ingest_task[t].pc = "idle"
    /\ clock' = clock + dt
    /\ request_ts' = rawts
    /\ TaskBegun(t, Boundary(IngestState, source, rid, payload, rawts, clock + dt),
                 rid, clock + dt)
    /\ WorkersUnchanged
    /\ UNCHANGED <<running, last_speak_by_resident, resident_to_session,
                   broadcast_configured, spoken_log, avatar_channel, ws_phase,
                   ws_resident, retention_run_interval_seconds,
                   proactive_monitor_enabled>>

\* the send the task t was suspended in completes and the task runs on
TaskResume(t) ==
    /\ ingest_task[t].pc # "idle"
    /\ TaskRun(t, IngestState, NextBroadcast(Hub, ingest_task[t]), clock)
    /\ WorkersUnchanged
    /\ UNCHANGED <<clock, request_ts, running, last_speak_by_resident,
                   resident_to_session, broadcast_configured, spoken_log,
                   avatar_channel, ws_phase, ws_resident,
                   retention_run_interval_seconds, proactive_monitor_enabled>>

MaxTaskPackets == 4

\* milliseconds between two requests: beyond the persistence interval, so
\* that every tick of a changed step count is due for a snapshot
TaskGapMs == 6000

\* the n-th device packet: every packet carries its own step count
TaskPayload(n) == [fsrLeft |-> 20, fsrRight |-> 18, tiltDeg |-> <<10>>, steps |-> <<n>>]

\* which of the idle tasks takes a request makes no difference: t_1 when idle
FreeTask(t) ==
    /\ ingest_task[t].pc = "idle"
    /\ t = "t_2" => ingest_task["t_1"].pc # "idle"

TasksWalker ==
    /\ Packets < MaxTaskPackets
    /\ \E t \in IngestTasks :
          FreeTask(t) /\ TaskBegin(t, "walker", "r_1", TaskPayload(Packets + 1), None, TaskGapMs)

TasksVision ==
    /\ Packets < MaxTaskPackets
    /\ \E t \in IngestTasks :
          FreeTask(t) /\ TaskBegin(t, "vision", "r_1",
                    [fallSuspected |-> FALSE, stepCount |-> <<Packets + 1>>], None, TaskGapMs)

TasksResume == \E t \in IngestTasks : TaskResume(t)

\* one client, on either scope
TasksSubscribe == \E resident_id \in HubScopes : WsAccept("ws_1", resident_id)

TasksRegister == \E ok \in BOOLEAN : WsRegister("ws_1", ok)

NextTasks == TasksWalker \/ TasksVision \/ TasksResume \/ TasksSubscribe \/ TasksRegister

SpecTasks == Init /\ [][NextTasks]_vars

\* C38: at every suspension point, the fused state of every subject embeds
\* exactly the device reading and the vision reading stored for the subject.
C38_FusedEmbedsLatest ==
    \A rid \in Residents :
       ~IsNone(merged_state[rid]) =>
          /\ Get(merged_state[rid]).walker = walker_state[rid]
          /\ Get(merged_state[rid]).vision = vision_state[rid]

\* both tasks are suspended in a send; the fused state is the one of the
\* later task and embeds the readings of both streams
C38_Witness ==
    /\ ingest_task["t_1"].pc # "idle"
    /\ ingest_task["t_2"].pc # "idle"
    /\ ingest_task["t_1"].merged # ingest_task["t_2"].merged
    /\ merged_state["r_1"] \in {ingest_task["t_1"].merged, ingest_task["t_2"].merged}
    /\ ~IsNone(Get(merged_state["r_1"]).walker)
    /\ ~IsNone(Get(merged_state["r_1"]).vision)

\* the fused states of subject rid, in the order in which they were produced
Produced(rid) ==
    SelectSeq(broadcasts, LAMBDA e : e.scope = "all" /\ e.residentId = rid)

\* the position of the fused state m in that order (every packet of the
\* specification carries its own step count, so no two fused states are equal)
ProducedAt(rid, m) ==
    CHOOSE i \in 1..Len(Produced(rid)) : Produced(rid)[i].data = m

\* the merged_update events of subject rid the socket ws received, in order
UpdatesFor(ws, rid) ==
    SelectSeq(inbox[ws], LAMBDA e : e.type = "merged_update" /\ e.data.residentId = rid)

\* C39 (as claimed): every subscriber receives the merged_update events of a
\* subject in the order in which the fused states were produced, also when
\* two tasks for the subject are suspended in sends: no update is followed by
\* an update carrying an earlier fused state.
C39_UpdatesInProductionOrder ==
    \A ws \in Sockets :
       LET u == UpdatesFor(ws, "r_1")
       IN  \A i, j \in 1..Len(u) :
              i < j => ProducedAt("r_1", u[i].data) <= ProducedAt("r_1", u[j].data)

\* C40 (as claimed): the device and vision payloads of every full-payload
\* snapshot row are the readings embedded in the row's merged state, also
\* when another packet was accepted while the writing task was suspended.
C40_FullSnapshotConsistent ==
    \A i \in 1..Len(metric_samples) :
       IsFullSnapshot(metric_samples[i]) =>
          /\ metric_samples[i].walker_json = metric_samples[i].merged_json.walker
          /\ metric_samples[i].vision_json = metric_samples[i].merged_json.vision
====
